---- MODULE Spec2Model ----
(***************************************************************************)
(* State-machine model of the replicated, event-sourced object store of    *)
(* src/src/sync.rs and its gRPC front end src/src/server.rs: one server    *)
(* repository, two client repositories and an arbitrary network peer.      *)
(***************************************************************************)
EXTENDS Integers, Sequences, FiniteSets, TLC

----------------------------------------------------------------------------
\* Bounds of the model

\* number of UUIDs (Uuid::new_v4) a client draws in one behaviour
MaxClock == 6
\* number of Push requests the server starts to merge
MaxMerge == 3
\* number of ActionObjects deposited in one commit context
MaxActions == 2
\* number of commits a client closes
MaxLocal == 2
\* number of commits the network peer pushes by hand
MaxRaw == 1
\* number of Pull requests served
MaxPull == 1
\* ids and clock ticks used by the calls on one StorageObject
MaxOps == 5
\* number of hooks registered with one Repository
MaxHooks == 3

----------------------------------------------------------------------------
\* Replicas and values

Server == "S"
Clients == {"A", "B"}
Replicas == Clients \cup {Server}
\* a network peer that is no Repository: it speaks the wire protocol directly
Peer == "X"

\* Uuid::default(), the ancestor of the first commit of a log
SentinelId == 0
\* Option::<Uuid>::None
NoId == -1
\* Option::<String>::None of a remote_signature
NoSig == << >>
\* Option::<T>::None of remote_object
NoObj == [none |-> TRUE]
\* no StorageObject (the Err side of a Result<StorageObject, String>)
NoSO == [none |-> TRUE]
\* no commit context open / no commit
NoCommit == [none |-> TRUE]

\* the storages both binaries register, in registration order
Hooks == <<"demo_a", "demo_b">>
StorageIds == {Hooks[i] : i \in 1..Len(Hooks)}
\* the storages the applications write to (AppData uses only `a`)
UsedStorages == {"demo_a"}

\* the object of the demo application: User {id, name, age}
DemoUser(id) == [id |-> id, name |-> "Peti", age |-> 34]
UserIds == {1}
\* the patch actions of the demo application (UserAction)
PatchActions == {[op |-> "SetAge", val |-> 7]}

\* the n-th UUID replica r draws; Uuid::new_v4 never repeats an id, in one
\* process or across processes
IdBase == [r \in Replicas |-> IF r = "A" THEN 100 ELSE IF r = "B" THEN 200 ELSE 300]
NewId(r, n) == IdBase[r] + n

Last(s) == s[Len(s)]
Put(f, k, v) == [x \in (DOMAIN f) \cup {k} |-> IF x = k THEN v ELSE f[x]]

----------------------------------------------------------------------------
\* Serialization and signatures

\* field order of the derived Serialize of User, and the key order a
\* serde_json::Value (a BTreeMap) writes the same object with
DeclOrder == <<"id", "name", "age">>
SortedOrder == <<"age", "id", "name">>

\* serde_json::to_string of a T: the keys in declaration order
ObjToJson(obj) == [order |-> DeclOrder, val |-> obj]

\* SHA-1 of a serialized value; collisions are not modelled
sha1_signature(json) == <<"sha1", json>>

\* a string that is no JSON of an ActionObject
Garbage == [garbage |-> TRUE]
IsAobJson(s) == "action" \in DOMAIN s

\* serde_json::to_string(&ActionObject<T, A>)
AobToJson(aob) ==
  [aob EXCEPT !.action =
     [kind |-> aob.action.kind,
      order |-> IF aob.action.kind = "Create" THEN DeclOrder ELSE << >>,
      data |-> aob.action.data]]

\* serde_json::from_str::<UniversalActionObject>: action kept as a Value
UniversalFromJson(s) ==
  [s EXCEPT !.action = [kind |-> s.action.kind, data |-> s.action.data]]

\* serde_json::to_string(&UniversalActionObject): a Value writes its keys sorted
UniversalToJson(u) ==
  [u EXCEPT !.action =
     [kind |-> u.action.kind,
      order |-> IF u.action.kind = "Create" THEN SortedOrder ELSE << >>,
      data |-> u.action.data]]

\* serde_json::from_str::<ActionObject<User, UserAction>> succeeds
TypedDecodable(s) == IsAobJson(s) /\ s.action.kind \in {"Create", "Patch"}
TypedFromJson(s) ==
  [s EXCEPT !.action = [kind |-> s.action.kind, data |-> s.action.data]]

\* serde_json::to_string(&Commit) and serde_json::from_str::<Commit>
CommitToJson(c) == <<"Commit", c>>
IsCommitJson(s) == Len(s) = 2 /\ s[1] = "Commit"
CommitFromJson(s) == s[2]

----------------------------------------------------------------------------
\* ActionExt for UserAction (src/src/bin/demo.rs)

\* ActionExt::apply_patch returns a Result: beside the two actions of the
\* demo, which always succeed, SetAgeIfName stands for an action of an
\* application that refuses an object it does not expect
apply_patch(action, object, dtime, uid) ==
  IF action.op = "SetAge"
    THEN [ok |-> TRUE, obj |-> [object EXCEPT !.age = action.val]]
  ELSE IF action.op = "SetName"
    THEN [ok |-> TRUE, obj |-> [object EXCEPT !.name = action.val]]
  ELSE IF action.op = "SetAgeIfName"
    THEN IF object.name = action.name
           THEN [ok |-> TRUE, obj |-> [object EXCEPT !.age = action.val]]
           ELSE [ok |-> FALSE, obj |-> object]
  ELSE [ok |-> FALSE, obj |-> object]

----------------------------------------------------------------------------
\* ActionObject and UniversalActionObject

\* an is_remote that takes every action object for an unsigned one
is_remote_never(aob) == FALSE

is_local(aob) == aob.remote_signature = NoSig
is_remote(aob) == aob.remote_signature # NoSig
is_kind_patch(aob) == aob.action.kind = "Patch"
is_kind_create(aob) == aob.action.kind = "Create"

\* ActionObject::has_valid_remote_signature
aob_has_valid_remote_signature(aob) ==
  /\ aob.remote_signature # NoSig
  /\ sha1_signature(AobToJson([aob EXCEPT !.remote_signature = NoSig]))
       = aob.remote_signature

\* remote_sign hashing the envelope as the typed ActionObject writes it
remote_sign_typed(u) ==
  IF is_remote(u)
    THEN [ok |-> FALSE, u |-> u]
    ELSE [ok |-> TRUE,
          u |-> [u EXCEPT !.remote_signature = sha1_signature(AobToJson(u))]]

\* UniversalActionObject::remote_sign
remote_sign(u) ==
  IF is_remote(u)
    THEN [ok |-> FALSE, u |-> u]
    ELSE [ok |-> TRUE,
          u |-> [u EXCEPT !.remote_signature =
                   sha1_signature(UniversalToJson(u))]]

----------------------------------------------------------------------------
\* Commit

\* Commit::new
NewCommit(id, uid, comment, now) ==
  [id |-> id, uid |-> uid, dtime |-> now, comment |-> comment,
   ancestor_id |-> SentinelId, serialized_actions |-> << >>,
   remote_signature |-> NoSig]

\* Commit::add_action_object, for a typed and for a universal action object
commit_add_action_object(c, json) ==
  [c EXCEPT !.serialized_actions = Append(@, json)]

\* Commit::add_remote_signature
add_remote_signature(c) ==
  IF c.remote_signature # NoSig
    THEN [ok |-> FALSE, c |-> c]
    ELSE [ok |-> TRUE,
          c |-> [c EXCEPT !.remote_signature =
                   sha1_signature(CommitToJson(c))]]

\* Commit::has_valid_remote_signature: the copy loses its signature, but the
\* hash is taken over self, which still carries it
commit_has_valid_remote_signature(c) ==
  LET sig1 == c.remote_signature
      sig2 == sha1_signature(CommitToJson(c))
  IN sig1 # NoSig /\ sig1 = sig2

----------------------------------------------------------------------------
\* StorageObject

\* a new_from_aob that takes every Create for a local one
new_from_aob_as_local(aob) ==
  IF aob.action.kind = "Create"
    THEN [ok |-> TRUE,
          so |-> [id |-> aob.object_id, storage_id |-> aob.storage_id,
                  remote_actions |-> << >>, local_actions |-> <<aob>>,
                  remote_object |-> NoObj,
                  local_object |-> aob.action.data]]
    ELSE [ok |-> FALSE, so |-> NoSO]

\* StorageObject::new_from_aob
new_from_aob(aob) ==
  IF aob.action.kind = "Create"
    THEN [ok |-> TRUE,
          so |-> IF is_local(aob)
                   THEN [id |-> aob.object_id, storage_id |-> aob.storage_id,
                         remote_actions |-> << >>, local_actions |-> <<aob>>,
                         remote_object |-> NoObj,
                         local_object |-> aob.action.data]
                   ELSE [id |-> aob.object_id, storage_id |-> aob.storage_id,
                         remote_actions |-> <<aob>>, local_actions |-> << >>,
                         remote_object |-> aob.action.data,
                         local_object |-> aob.action.data]]
    ELSE [ok |-> FALSE, so |-> NoSO]

is_local_object(so) == so.remote_object = NoObj
is_remote_object(so) == ~is_local_object(so)

\* the id of the last action of a chain, None for an empty chain
LastId(actions) == IF Len(actions) = 0 THEN NoId ELSE Last(actions).id

\* a clear that empties local_actions and keeps local_object
clear_local_actions_only(so) ==
  [ok |-> TRUE, panic |-> FALSE, so |-> [so EXCEPT !.local_actions = << >>]]

\* StorageObject::clear_local_changes; the assert! panics on a local object
clear_local_changes(so) ==
  IF is_remote_object(so)
    THEN [ok |-> TRUE, panic |-> FALSE,
          so |-> [so EXCEPT !.local_actions = << >>,
                            !.local_object = so.remote_object]]
    ELSE [ok |-> FALSE, panic |-> TRUE, so |-> so]

\* the for loop of StorageObject::rebuild_local_objects, from action i on
RECURSIVE rebuild_loop(_, _, _)
rebuild_loop(so, i, now) ==
  IF i > Len(so.local_actions)
    THEN [ok |-> TRUE, so |-> so]
    ELSE LET ao == so.local_actions[i] IN
         IF ao.action.kind = "Patch"
           THEN LET p == apply_patch(ao.action.data, so.local_object,
                                     ao.dtime, ao.uid) IN
                IF ~p.ok
                  THEN [ok |-> FALSE, so |-> so]
                  ELSE rebuild_loop(
                         [so EXCEPT
                            !.local_actions[i] =
                               [ao EXCEPT
                                  !.object_signature =
                                     sha1_signature(ObjToJson(p.obj)),
                                  !.dtime = now],
                            !.local_object = p.obj],
                         i + 1, now)
           ELSE rebuild_loop(so, i + 1, now)

\* a rebuild that leaves the local side as it was
rebuild_skipped(so, now) == [ok |-> TRUE, so |-> so]

\* StorageObject::rebuild_local_objects; on Err self stays as far as it got
rebuild_local_objects(so, now) ==
  IF so.remote_object = NoObj
    THEN [ok |-> FALSE, so |-> so]
    ELSE rebuild_loop([so EXCEPT !.local_object = so.remote_object], 1, now)

\* a create_action_object that names no parent action
create_action_object_unparented(so, ctx_uid, commit, action, id, now) ==
  LET p == IF action.kind = "Create"
             THEN [ok |-> TRUE, obj |-> action.data]
             ELSE apply_patch(action.data, so.local_object, now, commit.uid)
  IN [ok |-> p.ok,
      aob |-> [id |-> id,
               storage_id |-> so.storage_id,
               object_id |-> so.id,
               uid |-> ctx_uid,
               dtime |-> now,
               commit_id |-> commit.id,
               parent_action_id |-> NoId,
               action |-> action,
               object_signature |-> sha1_signature(ObjToJson(p.obj)),
               remote_signature |-> NoSig]]

\* StorageObject::create_action_object; action is [kind, data]
create_action_object(so, ctx_uid, commit, action, id, now) ==
  LET p == IF action.kind = "Create"
             THEN [ok |-> TRUE, obj |-> action.data]
             ELSE apply_patch(action.data, so.local_object, now, commit.uid)
  IN [ok |-> p.ok,
      aob |-> [id |-> id,
               storage_id |-> so.storage_id,
               object_id |-> so.id,
               uid |-> ctx_uid,
               dtime |-> now,
               commit_id |-> commit.id,
               parent_action_id |-> LastId(so.local_actions),
               action |-> action,
               object_signature |-> sha1_signature(ObjToJson(p.obj)),
               remote_signature |-> NoSig]]

\* an add_local_action_object that does not look at the parent id
add_local_unchained(so, aob) ==
  IF is_remote(aob) THEN [ok |-> FALSE, so |-> so]
  ELSE IF aob.action.kind # "Patch" THEN [ok |-> FALSE, so |-> so]
  ELSE LET p == apply_patch(aob.action.data, so.local_object,
                            aob.dtime, aob.uid) IN
       IF ~p.ok THEN [ok |-> FALSE, so |-> so]
       ELSE IF aob.object_signature # sha1_signature(ObjToJson(p.obj))
         THEN [ok |-> FALSE, so |-> so]
       ELSE [ok |-> TRUE,
             so |-> [so EXCEPT !.local_object = p.obj,
                               !.local_actions = Append(@, aob)]]

\* StorageObject::add_local_action_object
add_local_action_object(so, aob) ==
  IF is_remote(aob) THEN [ok |-> FALSE, so |-> so]
  ELSE IF aob.action.kind # "Patch" THEN [ok |-> FALSE, so |-> so]
  ELSE IF aob.parent_action_id # LastId(so.local_actions)
    THEN [ok |-> FALSE, so |-> so]
  ELSE LET p == apply_patch(aob.action.data, so.local_object,
                            aob.dtime, aob.uid) IN
       IF ~p.ok THEN [ok |-> FALSE, so |-> so]
       ELSE IF aob.object_signature # sha1_signature(ObjToJson(p.obj))
         THEN [ok |-> FALSE, so |-> so]
       ELSE [ok |-> TRUE,
             so |-> [so EXCEPT !.local_object = p.obj,
                               !.local_actions = Append(@, aob)]]

\* StorageObject::add_remote_action_object
add_remote_action_object(so, aob, now) ==
  IF ~is_remote(aob) THEN [ok |-> FALSE, so |-> so]
  ELSE IF LastId(so.remote_actions) # aob.parent_action_id
    THEN [ok |-> FALSE, so |-> so]
  ELSE IF so.remote_object = NoObj THEN [ok |-> FALSE, so |-> so]
  ELSE IF aob.action.kind # "Patch" THEN [ok |-> FALSE, so |-> so]
  ELSE LET p == apply_patch(aob.action.data, so.remote_object,
                            aob.dtime, aob.uid) IN
       IF ~p.ok THEN [ok |-> FALSE, so |-> so]
       ELSE IF aob.object_signature # sha1_signature(ObjToJson(p.obj))
         THEN [ok |-> FALSE, so |-> so]
       ELSE IF aob.remote_signature = NoSig THEN [ok |-> FALSE, so |-> so]
       ELSE rebuild_local_objects(
              [so EXCEPT !.remote_object = p.obj,
                         !.remote_actions = Append(@, aob)],
              now)

\* StorageObject::add_action_object
so_add_action_object(so, aob, now) ==
  IF is_local(aob)
    THEN add_local_action_object(so, aob)
    ELSE add_remote_action_object(so, aob, now)

----------------------------------------------------------------------------
\* Storage.  w is the state of one replica (see EmptyRepo below), of which
\* the storages use w.member_ids[sid], StorageInner::member_ids of storage
\* sid, and w.files[<<sid, oid>>], the StorageObject persisted under
\* storage_data/<sid>/<oid>.

Members(w, sid) ==
  {w.member_ids[sid][i] : i \in 1..Len(w.member_ids[sid])}

\* Storage::get_object_by_id
get_object_by_id(w, sid, oid) ==
  IF oid \notin Members(w, sid) THEN [ok |-> FALSE, so |-> NoSO]
  ELSE IF <<sid, oid>> \notin DOMAIN w.files THEN [ok |-> FALSE, so |-> NoSO]
  ELSE [ok |-> TRUE, so |-> w.files[<<sid, oid>>]]

\* Storage::get_all
get_all(w, sid) ==
  [i \in 1..Len(w.member_ids[sid]) |->
     get_object_by_id(w, sid, w.member_ids[sid][i]).so]

\* Storage::get_by_filter with the filter |i| i.id == uid
RECURSIVE FilterSeq(_, _)
FilterSeq(objs, uid) ==
  IF Len(objs) = 0 THEN << >>
  ELSE IF Head(objs).local_object.id = uid
    THEN <<Head(objs)>> \o FilterSeq(Tail(objs), uid)
    ELSE FilterSeq(Tail(objs), uid)
get_by_filter(w, sid, uid) == FilterSeq(get_all(w, sid), uid)

\* Storage::get_first_by_filter
get_first_by_filter(w, sid, uid) ==
  LET res == get_by_filter(w, sid, uid)
  IN IF Len(res) = 0 THEN [ok |-> FALSE, so |-> NoSO]
     ELSE [ok |-> TRUE, so |-> res[1]]

\* Storage::add_action_object: a Create writes the object file and pushes
\* the member id, a Patch works on a copy read from the file
StoreCreated(w, sid, aob, n) ==
  [ok |-> TRUE,
   so |-> n.so,
   w |-> [w EXCEPT
            !.member_ids[sid] = Append(@, aob.object_id),
            !.files = Put(@, <<n.so.storage_id, n.so.id>>, n.so)]]
StorePatched(w, r) == [ok |-> r.ok, so |-> r.so, w |-> w]
StoreFound(w, g, aob, now) ==
  IF ~g.ok THEN [ok |-> FALSE, so |-> NoSO, w |-> w]
  ELSE StorePatched(w, so_add_action_object(g.so, aob, now))
storage_add_action_object(w, sid, aob, now) ==
  IF is_kind_create(aob)
    THEN StoreCreated(w, sid, aob, new_from_aob(aob))
    ELSE StoreFound(w, get_object_by_id(w, sid, aob.object_id), aob, now)

\* the hook closure of Storage::register for storage sid; res is "None",
\* "Ok" or "Err".  In Check mode the Some(Ok(())) of the inner match is the
\* value of a statement that ends in `;`, so the closure goes on to its
\* final None.
HookResult(r, mode) ==
  IF ~r.ok THEN [res |-> "Err", w |-> r.w]
  ELSE IF mode = "Apply"
    THEN [res |-> "Ok",
          w |-> [r.w EXCEPT !.files =
                   Put(@, <<r.so.storage_id, r.so.id>>, r.so)]]
    ELSE [res |-> "None", w |-> r.w]
HookDecoded(w, sid, aob, mode, now) ==
  IF aob.storage_id # sid THEN [res |-> "None", w |-> w]
  ELSE HookResult(storage_add_action_object(w, sid, aob, now), mode)
hook(w, sid, aobstr, mode, now) ==
  IF ~TypedDecodable(aobstr) THEN [res |-> "None", w |-> w]
  ELSE HookDecoded(w, sid, TypedFromJson(aobstr), mode, now)

\* a loop over the hooks that asks the first hook only
dispatch_first_hook(w, i, aobstr, mode, now) ==
  IF Len(w.hooks) = 0 THEN [res |-> "None", w |-> w]
  ELSE hook(w, w.hooks[1], aobstr, mode, now)

\* the inner loop over the hooks: the first hook that returns Some consumes
RECURSIVE dispatch(_, _, _, _, _)
DispatchNext(r, i, aobstr, mode, now) ==
  IF r.res # "None" THEN r
  ELSE dispatch(r.w, i + 1, aobstr, mode, now)
dispatch(w, i, aobstr, mode, now) ==
  IF i > Len(w.hooks) THEN [res |-> "None", w |-> w]
  ELSE DispatchNext(hook(w, w.hooks[i], aobstr, mode, now),
                    i, aobstr, mode, now)

\* step 3 of merge_pushed_commit: the hooks in Check mode, stopping at the
\* first Err
RECURSIVE CheckAll(_, _, _)
CheckNext(r, rest, now) ==
  IF r.res = "Err" THEN [ok |-> FALSE, w |-> r.w]
  ELSE CheckAll(r.w, rest, now)
CheckAll(w, actions, now) ==
  IF Len(actions) = 0 THEN [ok |-> TRUE, w |-> w]
  ELSE CheckNext(dispatch(w, 1, Head(actions), "Check", now),
                 Tail(actions), now)

\* an apply loop that starts with the action deposited last
RECURSIVE ApplyAllReversed(_, _, _)
ApplyAllReversed(w, actions, now) ==
  IF Len(actions) = 0 THEN w
  ELSE ApplyAllReversed(dispatch(w, 1, Last(actions), "Apply", now).w,
                        SubSeq(actions, 1, Len(actions) - 1), now)

\* the apply loop of Drop for CommitContextGuard: results are only printed
RECURSIVE ApplyAll(_, _, _)
ApplyAll(w, actions, now) ==
  IF Len(actions) = 0 THEN w
  ELSE ApplyAll(dispatch(w, 1, Head(actions), "Apply", now).w,
                Tail(actions), now)

----------------------------------------------------------------------------
\* CommitIndex and CommitLog.  The state of one replica is a record
\* [local_log, remote_log, index, member_ids, files, hooks]; hooks are the
\* storage ids of Repository::storage_hooks, in registration order, which
\* both applications fill before their first commit.

EmptyRepo ==
  [local_log |-> << >>,
   remote_log |-> << >>,
   index |-> [latest_local_commit_id |-> NoId,
              latest_remote_commit_id |-> NoId],
   member_ids |-> [sid \in StorageIds |-> << >>],
   files |-> << >>,
   hooks |-> Hooks]

\* CommitIndex::latest_local_commit_id
latest_local_commit_id(index) == index.latest_local_commit_id

\* CommitIndex::latest_remote_commit_id: it returns s.latest_local_commit_id
latest_remote_commit_id(index) == index.latest_local_commit_id

\* an add_local_commit that leaves the ancestor_id Commit::new has set
add_local_commit_unlinked(st, local_commit) ==
  [st EXCEPT !.index.latest_local_commit_id = local_commit.id,
             !.local_log = Append(@, local_commit)]

\* CommitLog::add_local_commit
add_local_commit(st, local_commit) ==
  LET c == IF latest_local_commit_id(st.index) # NoId
             THEN [local_commit EXCEPT
                     !.ancestor_id = latest_local_commit_id(st.index)]
             ELSE local_commit
  IN [st EXCEPT !.index.latest_local_commit_id = c.id,
                !.local_log = Append(@, c)]

\* CommitLog::add_remote_commit
add_remote_commit(st, remote_commit) ==
  IF /\ st.index.latest_remote_commit_id # NoId
     /\ remote_commit.ancestor_id # st.index.latest_remote_commit_id
    THEN [ok |-> FALSE, st |-> st]
    ELSE [ok |-> TRUE,
          st |-> [st EXCEPT
                    !.index.latest_remote_commit_id = remote_commit.id,
                    !.remote_log = Append(@, remote_commit)]]

\* CommitLog::load_remotes_after over binary_continuous_read_after_filter:
\* the records that follow the first one whose id is after_id
RECURSIVE read_after(_, _)
read_after(log, after_id) ==
  IF Len(log) = 0 THEN << >>
  ELSE IF Head(log).id = after_id THEN Tail(log)
  ELSE read_after(Tail(log), after_id)
load_remotes_after(st, after_id) == read_after(st.remote_log, after_id)

\* Drop for CommitContextGuard: the expect on add_remote_commit panics, and
\* the guards dropped by the unwinding poison the mutexes
DropRemote(st, r, temp_commit, now) ==
  IF ~r.ok
    THEN [panic |-> TRUE, st |-> st]
    ELSE [panic |-> FALSE,
          st |-> ApplyAll(r.st, temp_commit.serialized_actions, now)]
\* a drop that stores every commit as a remote one
drop_as_remote(st, temp_commit, now) ==
  DropRemote(st, add_remote_commit(st, temp_commit), temp_commit, now)
drop(st, temp_commit, now) ==
  IF temp_commit.remote_signature # NoSig
    THEN DropRemote(st, add_remote_commit(st, temp_commit), temp_commit, now)
    ELSE [panic |-> FALSE,
          st |-> ApplyAll(add_local_commit(st, temp_commit),
                          temp_commit.serialized_actions, now)]

----------------------------------------------------------------------------
\* Repository::merge_pushed_commit, from after commit_ctx("") to the return:
\* result is "Ok" or "Err", st the replica after the hooks ran in Check
\* mode, temp the temp_commit the guard holds when it is dropped

MergeErr(st, temp0) ==
  [result |-> "Err", commit |-> NoCommit, st |-> st, temp |-> temp0]

\* a step 2 that puts the signed action objects back in reverse order
SignActionsReversed(actions) ==
  [i \in 1..Len(actions) |->
     UniversalToJson(
       remote_sign(UniversalFromJson(actions[Len(actions) + 1 - i])).u)]

\* step 2: every action object re-read as a universal one, signed and
\* serialized again
SignActions(actions) ==
  [i \in 1..Len(actions) |->
     UniversalToJson(remote_sign(UniversalFromJson(actions[i])).u)]

\* steps 3 to 6, chk being the outcome of the hooks in Check mode
MergeChecked(chk, c, temp0) ==
  IF ~chk.ok THEN MergeErr(chk.w, temp0)
  ELSE [result |-> "Ok", commit |-> c, st |-> chk.w, temp |-> c]
MergeSigned(st, signed, temp0, now) ==
  MergeChecked(CheckAll(st, signed.serialized_actions, now),
               add_remote_signature(signed).c, temp0)
MergeCommit(st, commit, temp0, now) ==
  IF commit.remote_signature # NoSig THEN MergeErr(st, temp0)
  ELSE IF /\ latest_remote_commit_id(st.index) # NoId
          /\ commit.ancestor_id # latest_remote_commit_id(st.index)
    THEN MergeErr(st, temp0)
  ELSE IF \E i \in 1..Len(commit.serialized_actions) :
            ~IsAobJson(commit.serialized_actions[i])
    THEN MergeErr(st, temp0)
  ELSE IF \E i \in 1..Len(commit.serialized_actions) :
            is_remote(UniversalFromJson(commit.serialized_actions[i]))
    THEN MergeErr(st, temp0)
  ELSE MergeSigned(st,
                   [commit EXCEPT !.serialized_actions = SignActions(@)],
                   temp0, now)
merge_pushed_commit(st, commit_json_str, temp0, now) ==
  IF ~IsCommitJson(commit_json_str) THEN MergeErr(st, temp0)
  ELSE MergeCommit(st, CommitFromJson(commit_json_str), temp0, now)

\* merge_pushed_commit and the drop of its guard as the caller sees them:
\* result "Ok", "Err" or "Panic", and the replica they leave
MergeDropped(m, d) ==
  [result |-> IF d.panic THEN "Panic" ELSE m.result,
   commit |-> m.commit, st |-> d.st, panic |-> d.panic]
MergeReturned(m, now) == MergeDropped(m, drop(m.st, m.temp, now))
MergeOutcome(st, commit_json_str, temp0, now) ==
  MergeReturned(merge_pushed_commit(st, commit_json_str, temp0, now), now)

----------------------------------------------------------------------------
\* State

VARIABLES
  clock,      \* per replica: UUIDs drawn so far; also its reading of Utc::now()
  mode,       \* RepoDetails::mode of every replica
  repo,       \* logs, commit index, member ids and object files per replica
  ctx,        \* the temp_commit of the open CommitContextGuard, or NoCommit
  poisoned,   \* the mutexes of the Repository are poisoned
  push,       \* proceed_push of a client: its loop over the local commits
  raw,        \* a commit the network peer sent to Push, not yet handled
  raws,       \* number of commits the network peer has sent
  merging,    \* the Push request merge_pushed_commit is working on
  lastMerge,  \* the last Push request handled: input, outcome ("Ok", "Err",
              \* "Panic" in the drop, "Poisoned" at the lock), state before
  pull,       \* the Pull stream of every requester
  pulls,      \* number of Pull requests served
  so,         \* a StorageObject the methods of StorageObject are called on
  soOp,       \* the last of these calls: method, argument, outcome, self before
  pushStream, \* the Push handler working on a stream of commits: its loop
              \* position and the replies buffered in its channel
  lock        \* per replica: a ContextGuard of Repository::ctx() is held, and
              \* how far the commit context that is being closed has got

vars == <<clock, mode, repo, ctx, poisoned, push, raw, raws, merging,
          lastMerge, pull, pulls, so, soOp, pushStream, lock>>

Requesters == Clients \cup {Peer}
NoReq == << >>
NoMerge == [none |-> TRUE]
NoCall == [n |-> 0, op |-> "none", ok |-> FALSE, panic |-> FALSE,
           aob |-> NoSO, pre |-> NoSO]
NoStream == [st |-> "none", done |-> 0, buffered |-> 0]
Unlocked == [reader |-> FALSE, phase |-> "none", applied |-> 0,
             result |-> "None", commit |-> NoCommit, pre |-> NoCommit]
IdlePush == [st |-> "idle", queue |-> << >>, commits |-> << >>]
IdlePull == [st |-> "idle", after |-> NoId, res |-> << >>, got |-> << >>,
             snap |-> 0]

Init ==
  /\ clock = [r \in Replicas |-> 0]
  /\ mode = [r \in Replicas |-> IF r = Server THEN "Server" ELSE "Remote"]
  /\ repo = [r \in Replicas |-> EmptyRepo]
  /\ ctx = [r \in Replicas |-> NoCommit]
  /\ poisoned = [r \in Replicas |-> FALSE]
  /\ push = [c \in Clients |-> IdlePush]
  /\ raw = NoReq
  /\ raws = 0
  /\ merging = NoMerge
  /\ lastMerge = [from |-> "", req |-> NoReq, result |-> "None",
                  commit |-> NoCommit, pre |-> EmptyRepo]
  /\ pull = [p \in Requesters |-> IdlePull]
  /\ pulls = 0
  /\ so = NoSO
  /\ soOp = NoCall
  /\ pushStream = NoStream
  /\ lock = [r \in Replicas |-> Unlocked]

\* the client is in no call: no commit context, no proceed_push/proceed_pull
ClientFree(c) ==
  /\ ctx[c] = NoCommit
  /\ push[c].st \in {"idle", "returned"}
  /\ pull[c].st \in {"idle", "returned"}

----------------------------------------------------------------------------
\* Client operations (src/src/bin/demo.rs drives them)

\* Repository::commit_ctx / CommitContextGuard::new
CommitCtx(c) ==
  /\ ClientFree(c)
  /\ clock[c] < MaxClock
  /\ Len(repo[c].local_log) < MaxLocal
  /\ ctx' = [ctx EXCEPT ![c] =
       NewCommit(NewId(c, clock[c] + 1), c, "Demo commit", clock[c])]
  /\ clock' = [clock EXCEPT ![c] = @ + 1]
  /\ UNCHANGED <<lock, pushStream, so, soOp, mode, repo, poisoned, push, raw, raws, merging, lastMerge,
                 pull, pulls>>

\* Storage::create_object
CreateObject(c, sid, uid) ==
  /\ ctx[c] # NoCommit
  /\ Len(ctx[c].serialized_actions) < MaxActions
  /\ clock[c] + 2 <= MaxClock
  /\ LET data == DemoUser(uid)
         aob == [id |-> NewId(c, clock[c] + 1),
                 storage_id |-> sid,
                 object_id |-> NewId(c, clock[c] + 2),
                 uid |-> c,
                 dtime |-> clock[c],
                 commit_id |-> ctx[c].id,
                 parent_action_id |-> NoId,
                 action |-> [kind |-> "Create", data |-> data],
                 object_signature |-> sha1_signature(ObjToJson(data)),
                 remote_signature |-> NoSig]
     IN ctx' = [ctx EXCEPT ![c] = commit_add_action_object(@, AobToJson(aob))]
  /\ clock' = [clock EXCEPT ![c] = @ + 2]
  /\ UNCHANGED <<lock, pushStream, so, soOp, mode, repo, poisoned, push, raw, raws, merging, lastMerge,
                 pull, pulls>>

\* the loop of Storage::patch_by_filter over the filtered objects:
\* StorageObject::patch on each, the k-th drawing the id first + k
RECURSIVE PatchEach(_, _, _, _, _)
PatchNext(r, rest, patch, commit, first, now) ==
  IF ~r.ok THEN commit
  ELSE PatchEach(rest, patch,
                 commit_add_action_object(commit, AobToJson(r.aob)),
                 first + 1, now)
PatchEach(res, patch, commit, first, now) ==
  IF Len(res) = 0 THEN commit
  ELSE PatchNext(create_action_object(Head(res), commit.uid, commit,
                                      [kind |-> "Patch", data |-> patch],
                                      first, now),
                 Tail(res), patch, commit, first, now)

\* Storage::patch_by_filter with the filter |i| i.id == uid
PatchFiltered(c, res, patch) ==
  /\ Len(res) > 0
  /\ Len(ctx[c].serialized_actions) + Len(res) <= MaxActions
  /\ clock[c] + Len(res) <= MaxClock
  /\ ctx' = [ctx EXCEPT ![c] =
       PatchEach(res, patch, @, NewId(c, clock[c] + 1), clock[c])]
  /\ clock' = [clock EXCEPT ![c] = @ + Len(res)]
PatchByFilter(c, sid, uid, patch) ==
  /\ ctx[c] # NoCommit
  /\ PatchFiltered(c, get_by_filter(repo[c], sid, uid), patch)
  /\ UNCHANGED <<lock, pushStream, so, soOp, mode, repo, poisoned, push, raw, raws, merging, lastMerge,
                 pull, pulls>>

\* the commit context of a client goes out of scope
Dropped(c, d) ==
  /\ repo' = [repo EXCEPT ![c] = d.st]
  /\ poisoned' = [poisoned EXCEPT ![c] = d.panic]
DropCommitCtx(c) ==
  /\ c \in Clients
  /\ ctx[c] # NoCommit
  /\ Dropped(c, drop(repo[c], ctx[c], clock[c]))
  /\ ctx' = [ctx EXCEPT ![c] = NoCommit]
  /\ UNCHANGED <<lock, pushStream, so, soOp, clock, mode, push, raw, raws, merging, lastMerge, pull,
                 pulls>>

\* Repository::proceed_push up to the first request: it panics unless the
\* repository is in Remote mode, else it reads the local log
ProceedPush(c) ==
  /\ ClientFree(c)
  /\ push' = [push EXCEPT ![c] =
       IF mode[c] # "Remote"
         THEN [IdlePush EXCEPT !.st = "panicked"]
         ELSE [st |-> "run",
               queue |-> [i \in 1..Len(repo[c].local_log) |->
                            CommitToJson(repo[c].local_log[i])],
               commits |-> << >>]]
  /\ UNCHANGED <<lock, pushStream, so, soOp, clock, mode, repo, ctx, poisoned, raw, raws, merging,
                 lastMerge, pull, pulls>>

\* Repository::proceed_push after the last reply: it returns Ok(())
PushReturn(c) ==
  /\ push[c].st = "run"
  /\ push[c].queue = << >>
  /\ push' = [push EXCEPT ![c].st = "returned"]
  /\ UNCHANGED <<lock, pushStream, so, soOp, clock, mode, repo, ctx, poisoned, raw, raws, merging,
                 lastMerge, pull, pulls>>

----------------------------------------------------------------------------
\* The network peer

ClientCommits ==
  UNION {{repo[c].local_log[i] : i \in 1..Len(repo[c].local_log)} :
           c \in Clients}
ServerCommits ==
  {repo[Server].remote_log[i] : i \in 1..Len(repo[Server].remote_log)}
\* the id a push has to name as ancestor
ServerLast ==
  IF Len(repo[Server].remote_log) = 0 THEN SentinelId
  ELSE Last(repo[Server].remote_log).id

\* what the peer sends: a client's commit as it is or with the ancestor the
\* server expects, a commit of the remote log (signed), one with its
\* signature removed (its actions stay signed), a commit with an
\* undecodable action, and a string that is no commit
CraftedCommits ==
  {CommitToJson(c) : c \in ClientCommits}
  \cup {CommitToJson([c EXCEPT !.ancestor_id = ServerLast]) :
          c \in ClientCommits}
  \cup {CommitToJson(c) : c \in ServerCommits}
  \cup {CommitToJson([c EXCEPT !.remote_signature = NoSig,
                               !.ancestor_id = ServerLast]) :
          c \in ServerCommits}
  \cup {CommitToJson([c EXCEPT !.ancestor_id = ServerLast,
                               !.serialized_actions = Append(@, Garbage)]) :
          c \in ClientCommits}
  \cup {<<"garbage">>}

RawPush(json) ==
  /\ raw = NoReq
  /\ raws < MaxRaw
  /\ json \in CraftedCommits
  /\ raw' = json
  /\ raws' = raws + 1
  /\ UNCHANGED <<lock, pushStream, so, soOp, clock, mode, repo, ctx, poisoned, push, merging, lastMerge,
                 pull, pulls>>

----------------------------------------------------------------------------
\* Server: Api::push for Repository.  A request is handled when the server
\* takes it; the clients send one commit per request.

HasRequest(p) ==
  IF p = Peer THEN raw # NoReq
  ELSE push[p].st = "run" /\ push[p].queue # << >>
Request(p) == IF p = Peer THEN raw ELSE Head(push[p].queue)

\* the requester receives the reply: a client's unwrap panics on a failed
\* call, an empty reply stream lets its loop go on
Replied(p, result, commit) ==
  IF p = Peer THEN push
  ELSE [push EXCEPT ![p] =
          IF result = "Panic"
            THEN [@ EXCEPT !.st = "panicked"]
            ELSE [st |-> "run",
                  queue |-> Tail(@.queue),
                  commits |-> IF result = "Ok"
                                THEN Append(@.commits, CommitToJson(commit))
                                ELSE @.commits]]

\* commit_ctx("") at the head of merge_pushed_commit on a poisoned
\* repository: lock().unwrap() panics
MergePoisoned(p) ==
  /\ HasRequest(p)
  /\ merging = NoMerge
  /\ poisoned[Server]
  /\ lastMerge' = [from |-> p, req |-> Request(p), result |-> "Poisoned",
                   commit |-> NoCommit, pre |-> repo[Server]]
  /\ push' = Replied(p, "Panic", NoCommit)
  /\ raw' = IF p = Peer THEN NoReq ELSE raw
  /\ UNCHANGED <<lock, pushStream, so, soOp, clock, mode, repo, ctx, poisoned, raws, merging, pull,
                 pulls>>

\* commit_ctx("") at the head of merge_pushed_commit: the guard takes the
\* four mutexes and holds a new, empty commit
MergeBegin(p) ==
  /\ HasRequest(p)
  /\ merging = NoMerge
  /\ ~poisoned[Server]
  /\ ctx[Server] = NoCommit
  /\ clock[Server] < MaxMerge
  /\ ctx' = [ctx EXCEPT ![Server] =
       NewCommit(NewId(Server, clock[Server] + 1), Server, "", clock[Server])]
  /\ clock' = [clock EXCEPT ![Server] = @ + 1]
  /\ merging' = [from |-> p, commit |-> Request(p)]
  /\ push' = IF p = Peer THEN push ELSE [push EXCEPT ![p].st = "wait"]
  /\ UNCHANGED <<lock, pushStream, so, soOp, mode, repo, poisoned, raw, raws, lastMerge, pull, pulls>>

\* the rest of merge_pushed_commit, the drop of its guard, and the reply
Merged(o) ==
  /\ repo' = [repo EXCEPT ![Server] = o.st]
  /\ poisoned' = [poisoned EXCEPT ![Server] = o.panic]
  /\ lastMerge' = [from |-> merging.from, req |-> merging.commit,
                   result |-> o.result, commit |-> o.commit,
                   pre |-> repo[Server]]
  /\ push' = Replied(merging.from, o.result, o.commit)
MergeFinish ==
  /\ merging # NoMerge
  /\ Merged(MergeOutcome(repo[Server], merging.commit, ctx[Server],
                         clock[Server]))
  /\ ctx' = [ctx EXCEPT ![Server] = NoCommit]
  /\ raw' = IF merging.from = Peer THEN NoReq ELSE raw
  /\ merging' = NoMerge
  /\ UNCHANGED <<lock, pushStream, so, soOp, clock, mode, raws, pull, pulls>>

----------------------------------------------------------------------------
\* Server: Api::pull for Repository

\* after is NoId for an empty after_commit_id
PullHandler(p, after) ==
  /\ pulls < MaxPull
  /\ pull[p].st \in {"idle", "returned"}
  /\ ctx[Server] = NoCommit
  /\ pulls' = pulls + 1
  /\ pull' = [pull EXCEPT ![p] =
       IF poisoned[Server]
         THEN [IdlePull EXCEPT !.st = "panicked", !.after = after]
         ELSE [st |-> "streaming",
               after |-> after,
               res |-> IF after = NoId
                         THEN repo[Server].remote_log
                         ELSE load_remotes_after(repo[Server], after),
               got |-> << >>,
               snap |-> Len(repo[Server].remote_log)]]

\* Repository::proceed_pull: it panics unless the repository is in Remote
\* mode, else it asks for everything (after_commit_id "")
ProceedPull(c) ==
  /\ ClientFree(c)
  /\ IF mode[c] # "Remote"
       THEN /\ pull' = [pull EXCEPT ![c] = [IdlePull EXCEPT !.st = "panicked"]]
            /\ pulls' = pulls
       ELSE PullHandler(c, NoId)
  /\ UNCHANGED <<lock, pushStream, so, soOp, clock, mode, repo, ctx, poisoned, push, raw, raws, merging,
                 lastMerge>>

\* the peer asks for the commits after any id
PeerPull(after) ==
  /\ after \in {NoId, SentinelId} \cup {c.id : c \in ServerCommits}
  /\ PullHandler(Peer, after)
  /\ UNCHANGED <<lock, pushStream, so, soOp, clock, mode, repo, ctx, poisoned, push, raw, raws, merging,
                 lastMerge>>

\* the spawned task sends the next commit
PullEmit(p) ==
  /\ pull[p].st = "streaming"
  /\ pull[p].res # << >>
  /\ pull' = [pull EXCEPT ![p].res = Tail(@),
                          ![p].got = Append(@, CommitToJson(Head(pull[p].res)))]
  /\ UNCHANGED <<lock, pushStream, so, soOp, clock, mode, repo, ctx, poisoned, push, raw, raws, merging,
                 lastMerge, pulls>>

\* the stream ends; proceed_pull drops what it collected and returns Ok(())
PullEnd(p) ==
  /\ pull[p].st = "streaming"
  /\ pull[p].res = << >>
  /\ pull' = [pull EXCEPT ![p].st = "returned", ![p].got = << >>]
  /\ UNCHANGED <<lock, pushStream, so, soOp, clock, mode, repo, ctx, poisoned, push, raw, raws, merging,
                 lastMerge, pulls>>

----------------------------------------------------------------------------
\* the calls of the application on client c
ClientStep(c) ==
  \/ CommitCtx(c)
  \/ \E sid \in UsedStorages, uid \in UserIds : CreateObject(c, sid, uid)
  \/ \E sid \in UsedStorages, uid \in UserIds, patch \in PatchActions :
       PatchByFilter(c, sid, uid, patch)
  \/ DropCommitCtx(c)
  \/ ProceedPush(c)
  \/ PushReturn(c)

\* the Push handler of the server
ServerStep ==
  \/ \E p \in Requesters : MergePoisoned(p)
  \/ \E p \in Requesters : MergeBegin(p)
  \/ MergeFinish

\* Pull requests and their streams
PullStep ==
  \/ \E c \in Clients : ProceedPull(c)
  \/ \E after \in {NoId, SentinelId} \cup {c.id : c \in ServerCommits} :
       PeerPull(after)
  \/ \E p \in Requesters : PullEmit(p)
  \/ \E p \in Requesters : PullEnd(p)

\* two clients that commit and push, and the server
Next ==
  \/ \E c \in Clients : ClientStep(c)
  \/ ServerStep

Spec == Init /\ [][Next]_vars

\* one client, the server, and the network peer pushing crafted commits
NextPeer ==
  \/ ClientStep("A")
  \/ ServerStep
  \/ \E json \in CraftedCommits : RawPush(json)

SpecPeer == Init /\ [][NextPeer]_vars

\* two clients, the server, and Pull requests
NextPull ==
  \/ \E c \in Clients : ClientStep(c)
  \/ ServerStep
  \/ PullStep

SpecPull == Init /\ [][NextPull]_vars

\* two repositories in Local mode (src/src/bin/demo.rs)
InitLocal ==
  /\ clock = [r \in Replicas |-> 0]
  /\ mode = [r \in Replicas |-> IF r = Server THEN "Server" ELSE "Local"]
  /\ repo = [r \in Replicas |-> EmptyRepo]
  /\ ctx = [r \in Replicas |-> NoCommit]
  /\ poisoned = [r \in Replicas |-> FALSE]
  /\ push = [c \in Clients |-> IdlePush]
  /\ raw = NoReq
  /\ raws = 0
  /\ merging = NoMerge
  /\ lastMerge = [from |-> "", req |-> NoReq, result |-> "None",
                  commit |-> NoCommit, pre |-> EmptyRepo]
  /\ pull = [p \in Requesters |-> IdlePull]
  /\ pulls = 0
  /\ so = NoSO
  /\ soOp = NoCall
  /\ pushStream = NoStream
  /\ lock = [r \in Replicas |-> Unlocked]

NextLocal ==
  \E c \in Clients :
    \/ CommitCtx(c)
    \/ \E sid \in UsedStorages, uid \in UserIds : CreateObject(c, sid, uid)
    \/ \E sid \in UsedStorages, uid \in UserIds, patch \in PatchActions :
         PatchByFilter(c, sid, uid, patch)
    \/ DropCommitCtx(c)
    \/ ProceedPush(c)
    \/ ProceedPull(c)

SpecLocal == InitLocal /\ [][NextLocal]_vars

----------------------------------------------------------------------------
\* Storage::register on the handle of storage sid that an earlier register
\* has returned: Repository::add_storage_hook pushes the hook
Register(c, sid) ==
  /\ ClientFree(c)
  /\ Len(repo[c].hooks) < MaxHooks
  /\ repo' = [repo EXCEPT ![c].hooks = Append(@, sid)]
  /\ UNCHANGED <<lock, pushStream, so, soOp, clock, mode, ctx, poisoned, push, raw, raws,
                 merging, lastMerge, pull, pulls>>

\* a repository in Local mode whose application writes to both storages and
\* registers storages again
NextStorages ==
  \/ CommitCtx("A")
  \/ \E sid \in StorageIds, uid \in UserIds : CreateObject("A", sid, uid)
  \/ \E sid \in StorageIds, uid \in UserIds, patch \in PatchActions :
       PatchByFilter("A", sid, uid, patch)
  \/ DropCommitCtx("A")
  \/ \E sid \in StorageIds : Register("A", sid)

SpecStorages == InitLocal /\ [][NextStorages]_vars

----------------------------------------------------------------------------
\* StorageObject called on its own: an object is made from a Create action
\* object and takes local patches, remote patches and clear_local_changes.
\* An action object arrives as JSON, so it can also name a wrong parent or
\* carry a wrong object_signature.

ObjectPatches == PatchActions \cup {[op |-> "SetName", val |-> "Pan"]}
Tampers == {"none", "parent", "signature"}
Tampered(aob, t) ==
  IF t = "parent" THEN [aob EXCEPT !.parent_action_id = aob.id]
  ELSE IF t = "signature"
    THEN [aob EXCEPT !.object_signature = sha1_signature(ObjToJson(DemoUser(0)))]
  ELSE aob

\* the server signs an action object (step 2 of merge_pushed_commit) and the
\* hook decodes it
SignedAob(aob) ==
  TypedFromJson(UniversalToJson(remote_sign(UniversalFromJson(AobToJson(aob))).u))

\* the action object Storage::create_object builds
CreateAob(r, n, uid) ==
  [id |-> NewId(r, n + 1),
   storage_id |-> "demo_a",
   object_id |-> NewId(r, n + 2),
   uid |-> r,
   dtime |-> n,
   commit_id |-> NewId(r, 0),
   parent_action_id |-> NoId,
   action |-> [kind |-> "Create", data |-> DemoUser(uid)],
   object_signature |-> sha1_signature(ObjToJson(DemoUser(uid))),
   remote_signature |-> NoSig]

\* the Patch another replica has built on the remote object and its chain
RemotePatchAob(o, r, n, patch) ==
  [id |-> NewId(r, n + 1),
   storage_id |-> o.storage_id,
   object_id |-> o.id,
   uid |-> r,
   dtime |-> n,
   commit_id |-> NewId(r, 0),
   parent_action_id |-> LastId(o.remote_actions),
   action |-> [kind |-> "Patch", data |-> patch],
   object_signature |->
     sha1_signature(ObjToJson(
       apply_patch(patch,
                   IF is_remote_object(o) THEN o.remote_object
                                          ELSE o.local_object,
                   n, r).obj)),
   remote_signature |-> NoSig]

Called(op, aob, r, panic, k) ==
  /\ so' = r.so
  /\ soOp' = [n |-> soOp.n + k, op |-> op, ok |-> r.ok, panic |-> panic,
              aob |-> aob, pre |-> so]

\* StorageObject::new_from_aob on a local or a signed Create
ObjNew(remote, uid, t) ==
  /\ so = NoSO
  /\ soOp.n + 2 <= MaxOps
  /\ LET a == Tampered(CreateAob(IF remote THEN "B" ELSE "A", soOp.n, uid), t)
         aob == IF remote THEN SignedAob(a) ELSE a
     IN Called("create", aob, new_from_aob(aob), FALSE, 2)
  /\ UNCHANGED <<lock, pushStream, clock, mode, repo, ctx, poisoned, push, raw, raws, merging,
                 lastMerge, pull, pulls>>

\* StorageObject::new_from_aob on a local or a signed Patch
ObjNewFromPatch(remote, patch) ==
  /\ so = NoSO
  /\ soOp.n + 2 <= MaxOps
  /\ LET a == [CreateAob(IF remote THEN "B" ELSE "A", soOp.n, 1)
                 EXCEPT !.action = [kind |-> "Patch", data |-> patch]]
         aob == IF remote THEN SignedAob(a) ELSE a
     IN Called("create", aob, new_from_aob(aob), FALSE, 2)
  /\ UNCHANGED <<lock, pushStream, clock, mode, repo, ctx, poisoned, push, raw, raws, merging,
                 lastMerge, pull, pulls>>

\* StorageObject::patch, then StorageObject::add_action_object on its result
ObjLocalPatch(patch, t) ==
  /\ so # NoSO
  /\ soOp.n < MaxOps
  /\ LET c == create_action_object(
                so, "A", NewCommit(NewId("A", 0), "A", "", soOp.n),
                [kind |-> "Patch", data |-> patch],
                NewId("A", soOp.n + 1), soOp.n)
         aob == Tampered(c.aob, t)
     IN /\ c.ok
        /\ Called("local", aob, so_add_action_object(so, aob, soOp.n), FALSE, 1)
  /\ UNCHANGED <<lock, pushStream, clock, mode, repo, ctx, poisoned, push, raw, raws, merging,
                 lastMerge, pull, pulls>>

\* StorageObject::add_local_action_object called with what it is not made
\* for: a signed Patch, or a Create
LocalMisuses == {"signed", "create"}
ObjAddLocal(patch, v) ==
  /\ so # NoSO
  /\ soOp.n < MaxOps
  /\ LET c == create_action_object(
                so, "A", NewCommit(NewId("A", 0), "A", "", soOp.n),
                [kind |-> "Patch", data |-> patch],
                NewId("A", soOp.n + 1), soOp.n)
         aob == IF v = "signed" THEN SignedAob(c.aob)
                ELSE [CreateAob("A", soOp.n, so.local_object.id)
                        EXCEPT !.object_id = so.id,
                               !.parent_action_id = LastId(so.local_actions)]
     IN Called("local", aob, add_local_action_object(so, aob), FALSE, 1)
  /\ UNCHANGED <<lock, pushStream, clock, mode, repo, ctx, poisoned, push, raw, raws, merging,
                 lastMerge, pull, pulls>>

\* StorageObject::add_action_object on a signed Patch
ObjRemotePatch(patch, t) ==
  /\ so # NoSO
  /\ soOp.n < MaxOps
  /\ LET aob == SignedAob(Tampered(RemotePatchAob(so, "B", soOp.n, patch), t))
     IN Called("remote", aob, so_add_action_object(so, aob, soOp.n), FALSE, 1)
  /\ UNCHANGED <<lock, pushStream, clock, mode, repo, ctx, poisoned, push, raw, raws, merging,
                 lastMerge, pull, pulls>>

\* StorageObject::add_action_object on a Patch whose remote_signature is not
\* the SHA-1 of anything the server has signed
ObjForgedRemote(patch) ==
  /\ so # NoSO
  /\ soOp.n < MaxOps
  /\ LET aob == [SignedAob(RemotePatchAob(so, "B", soOp.n, patch))
                   EXCEPT !.remote_signature = sha1_signature(Garbage)]
     IN Called("remote", aob, so_add_action_object(so, aob, soOp.n), FALSE, 1)
  /\ UNCHANGED <<lock, pushStream, clock, mode, repo, ctx, poisoned, push, raw, raws, merging,
                 lastMerge, pull, pulls>>

\* StorageObject::clear_local_changes
ObjClear ==
  /\ so # NoSO
  /\ soOp.n < MaxOps
  /\ LET r == clear_local_changes(so)
     IN Called("clear", NoSO, r, r.panic, 1)
  /\ UNCHANGED <<lock, pushStream, clock, mode, repo, ctx, poisoned, push, raw, raws, merging,
                 lastMerge, pull, pulls>>

\* StorageObject::patch on a replica's object, and the Check of the server
\* on the Patch once it is pushed and signed: add_remote_action_object on
\* the server's object, which holds the remote side only.  ok is the outcome
\* of the Check; the replica itself adds the Patch to its local chain.
ObjPushedPatch(patch) ==
  /\ so # NoSO
  /\ is_remote_object(so)
  /\ soOp.n < MaxOps
  /\ LET c == create_action_object(
                so, "A", NewCommit(NewId("A", 0), "A", "", soOp.n),
                [kind |-> "Patch", data |-> patch],
                NewId("A", soOp.n + 1), soOp.n)
     IN /\ c.ok
        /\ Called("push", SignedAob(c.aob),
                  [ok |-> add_remote_action_object(
                            clear_local_changes(so).so, SignedAob(c.aob),
                            soOp.n).ok,
                   so |-> so_add_action_object(so, c.aob, soOp.n).so],
                  FALSE, 1)
  /\ UNCHANGED <<lock, pushStream, clock, mode, repo, ctx, poisoned, push, raw, raws, merging,
                 lastMerge, pull, pulls>>

NextObject ==
  \/ \E remote \in BOOLEAN, uid \in UserIds, t \in Tampers :
       ObjNew(remote, uid, t)
  \/ \E remote \in BOOLEAN, patch \in ObjectPatches :
       ObjNewFromPatch(remote, patch)
  \/ \E patch \in ObjectPatches, t \in Tampers : ObjLocalPatch(patch, t)
  \/ \E patch \in ObjectPatches, v \in LocalMisuses : ObjAddLocal(patch, v)
  \/ \E patch \in ObjectPatches, t \in Tampers : ObjRemotePatch(patch, t)
  \/ \E patch \in ObjectPatches : ObjForgedRemote(patch)
  \/ \E patch \in ObjectPatches : ObjPushedPatch(patch)
  \/ ObjClear

SpecObject == Init /\ [][NextObject]_vars

----------------------------------------------------------------------------
\* Properties

\* the Push requests merge_pushed_commit has worked on (not those that
\* found the mutexes poisoned)
MergeRan == lastMerge.result \in {"Ok", "Err", "Panic"}

\* the commit a Push request carries, if it is one
Pushed == CommitFromJson(lastMerge.req)

\* a log is a linear chain that starts at the sentinel
IsLinearChain(log) ==
  \A i \in 1..Len(log) :
    log[i].ancestor_id = IF i = 1 THEN SentinelId ELSE log[i - 1].id

\* C1: the remote log of the server is a linear chain: its first commit has
\* the sentinel as ancestor_id, every later one the id of the commit before it
C1_RemoteLogIsLinearChain == IsLinearChain(repo[Server].remote_log)

\* the remote log of the server starts with a commit that names an ancestor
C1_FirstRemoteNamesAncestor ==
  /\ Len(repo[Server].remote_log) > 0
  /\ repo[Server].remote_log[1].ancestor_id # SentinelId

\* the signature of a commit is the SHA-1 of the commit without it
CommitSignatureValid(c) ==
  /\ c.remote_signature # NoSig
  /\ c.remote_signature
       = sha1_signature(CommitToJson([c EXCEPT !.remote_signature = NoSig]))

\* the signature of a serialized action object is the SHA-1 of the
\* envelope without it, as UniversalActionObject serializes it
ActionSignatureValid(json) ==
  /\ IsAobJson(json)
  /\ json.remote_signature # NoSig
  /\ json.remote_signature
       = sha1_signature(UniversalToJson(
           [UniversalFromJson(json) EXCEPT !.remote_signature = NoSig]))

\* C2: every commit of the server's remote log carries the SHA-1 of the
\* commit without its signature and with its actions signed, and every
\* action in it the SHA-1 of its envelope without the signature; nothing
\* unsigned is in the remote log
C2_RemoteLogIsSigned ==
  \A i \in 1..Len(repo[Server].remote_log) :
    LET c == repo[Server].remote_log[i] IN
      /\ CommitSignatureValid(c)
      /\ \A j \in 1..Len(c.serialized_actions) :
           ActionSignatureValid(c.serialized_actions[j])

\* a commit with a Create and one with a Patch are in the remote log
C2_SignedCommitsMerged ==
  /\ Len(repo[Server].remote_log) = 2
  /\ \E j \in 1..Len(repo[Server].remote_log[1].serialized_actions) :
       repo[Server].remote_log[1].serialized_actions[j].action.kind = "Create"
  /\ \E j \in 1..Len(repo[Server].remote_log[2].serialized_actions) :
       repo[Server].remote_log[2].serialized_actions[j].action.kind = "Patch"

\* merge_pushed_commit has worked on a commit that names another ancestor
\* than the last commit of a non-empty remote log
StaleMerge ==
  /\ MergeRan
  /\ IsCommitJson(lastMerge.req)
  /\ Len(lastMerge.pre.remote_log) > 0
  /\ Pushed.ancestor_id # Last(lastMerge.pre.remote_log).id

\* C3: on a non-empty remote log, merge_pushed_commit of a commit whose
\* ancestor_id is not the id of the last remote commit returns an error, and
\* leaves the remote log and the last-remote-id of the index as they were
C3_StalePushIsRejected ==
  StaleMerge =>
    /\ lastMerge.result = "Err"
    /\ repo[Server].remote_log = lastMerge.pre.remote_log
    /\ repo[Server].index.latest_remote_commit_id
         = lastMerge.pre.index.latest_remote_commit_id

\* a stale commit has been merged and the call did not return
C3_StaleMergePanicked == StaleMerge /\ lastMerge.result = "Panic"

\* merge_pushed_commit has worked on the commit of one client that names the
\* ancestor which the last remote commit, pushed by another client, names
SameAncestorMerge ==
  /\ MergeRan
  /\ lastMerge.from \in Clients
  /\ Len(lastMerge.pre.remote_log) > 0
  /\ Last(lastMerge.pre.remote_log).uid \in Clients \ {lastMerge.from}
  /\ Pushed.ancestor_id = Last(lastMerge.pre.remote_log).ancestor_id

\* C4: of two commits that two clients push with the same ancestor, one is
\* appended to the remote log, the pusher of the other one gets an error,
\* and the server can serve the requests that follow (the merges themselves
\* run one at a time: merging holds one request)
C4_ConcurrentPushesOneWins ==
  SameAncestorMerge =>
    /\ lastMerge.result = "Err"
    /\ repo[Server].remote_log = lastMerge.pre.remote_log
    /\ ~poisoned[Server]
    /\ push[lastMerge.from].st # "panicked"

\* the second of two such pushes has left the server poisoned
C4_ServerPoisoned == SameAncestorMerge /\ poisoned[Server]

\* C5: when merge_pushed_commit returns an error, the server is as it was
\* before the call: remote log, local log, commit index, member_ids of every
\* storage and the persisted objects
C5_FailedMergeChangesNothing ==
  lastMerge.result = "Err" => repo[Server] = lastMerge.pre

\* a merge has returned an error and the local log of the server has grown
C5_FailedMergeLeftLocalCommit ==
  /\ lastMerge.result = "Err"
  /\ Len(repo[Server].local_log) > Len(lastMerge.pre.local_log)

\* proceed_pull of client c has returned after the server streamed at least
\* one commit to it, all of them commits of other clients
Pulled(c) ==
  /\ pull[c].st = "returned"
  /\ pull[c].snap >= 1
  /\ \A i \in 1..pull[c].snap : repo[Server].remote_log[i].uid # c
\* the last commit that pull delivered
LastPulled(c) == repo[Server].remote_log[pull[c].snap]

\* client c, having pulled, is in proceed_push and about to send its first
\* local commit
PushesAfterPull(c) ==
  /\ Pulled(c)
  /\ push[c].st = "run"
  /\ Len(push[c].queue) >= 1
  /\ Len(push[c].queue) = Len(repo[c].local_log)

\* the request merge_pushed_commit has worked on last came from client c,
\* which had pulled the whole remote log before
MergedAfterPull(c) ==
  /\ Pulled(c)
  /\ MergeRan
  /\ lastMerge.from = c
  /\ Len(lastMerge.pre.remote_log) = pull[c].snap

\* C6: a client that has pulled the commit Ca of another client and then
\* pushes sends its commit Cb with Ca's id as ancestor_id, the server
\* accepts it, and the remote log of the server ends with Ca, Cb
C6_StalePushRecovery ==
  \A c \in Clients :
    /\ PushesAfterPull(c) =>
         CommitFromJson(Head(push[c].queue)).ancestor_id = LastPulled(c).id
    /\ MergedAfterPull(c) =>
         /\ lastMerge.result = "Ok"
         /\ lastMerge.commit.ancestor_id = LastPulled(c).id
         /\ repo[Server].remote_log
              = Append(lastMerge.pre.remote_log, lastMerge.commit)

\* a client pushes a commit after it has pulled the commit of another client
C6_PushAfterPull == \E c \in Clients : PushesAfterPull(c)

\* the commits the server sent back to proceed_push of client c
Accepted(c) ==
  [i \in 1..Len(push[c].commits) |-> CommitFromJson(push[c].commits[i])]

IsSuffix(s, t) ==
  /\ Len(s) <= Len(t)
  /\ SubSeq(t, Len(t) - Len(s) + 1, Len(t)) = s

\* C7: when proceed_push has returned, no commit the server accepted is in
\* the local log of the client any more (so the local log is empty if all
\* were accepted), and the signed commits are, in order, the end of the
\* client's remote log
C7_PushMovesCommitsToRemoteLog ==
  \A c \in Clients :
    push[c].st = "returned" =>
      /\ \A i \in 1..Len(Accepted(c)) :
           \A j \in 1..Len(repo[c].local_log) :
             repo[c].local_log[j].id # Accepted(c)[i].id
      /\ IsSuffix(Accepted(c), repo[c].remote_log)

\* proceed_push has returned and the server accepted a commit of it
C7_PushAccepted ==
  \E c \in Clients : push[c].st = "returned" /\ Len(push[c].commits) >= 1

\* the remote log of the server as the Pull handler read it for p
PulledLog(p) == SubSeq(repo[Server].remote_log, 1, pull[p].snap)

\* the action objects of the commits of a log, in order
RECURSIVE LogActions(_)
LogActions(log) ==
  IF Len(log) = 0 THEN << >>
  ELSE Head(log).serialized_actions \o LogActions(Tail(log))

\* the actions of a log on object oid, and the object they fold to
ActionsOn(log, oid) ==
  SelectSeq(LogActions(log), LAMBDA a : a.object_id = oid)
RECURSIVE Folded(_, _)
Folded(obj, actions) ==
  IF Len(actions) = 0 THEN obj
  ELSE Folded(IF Head(actions).action.kind = "Create"
                THEN Head(actions).action.data
                ELSE apply_patch(Head(actions).action.data, obj,
                                 Head(actions).dtime, Head(actions).uid).obj,
              Tail(actions))

\* replica r holds the remote side of every object of the log: the remote
\* actions of the log on it, and the object they fold to
HoldsRemoteObjects(r, log) ==
  \A k \in 1..Len(LogActions(log)) :
    LET a == LogActions(log)[k]
        key == <<a.storage_id, a.object_id>>
        on == ActionsOn(log, a.object_id)
    IN /\ key \in DOMAIN repo[r].files
       /\ repo[r].files[key].remote_object = Folded(NoObj, on)
       /\ [i \in 1..Len(repo[r].files[key].remote_actions) |->
             repo[r].files[key].remote_actions[i].id]
            = [i \in 1..Len(on) |-> on[i].id]

\* C8: when proceed_pull has returned, the remote log of the client is the
\* remote log of the server, and the client's remote_object and
\* remote_actions of every object are those the commits of that log give;
\* two clients that have pulled the same log hold the same remote log and
\* the same remote side of every object
C8_PullConverges ==
  /\ \A c \in Clients :
       pull[c].st = "returned" =>
         /\ repo[c].remote_log = PulledLog(c)
         /\ HoldsRemoteObjects(c, PulledLog(c))
  /\ \A c, d \in Clients :
       (/\ pull[c].st = "returned"
        /\ pull[d].st = "returned"
        /\ pull[c].snap = pull[d].snap) =>
         /\ repo[c].remote_log = repo[d].remote_log
         /\ \A k \in DOMAIN repo[c].files \cap DOMAIN repo[d].files :
              /\ repo[c].files[k].remote_object = repo[d].files[k].remote_object
              /\ repo[c].files[k].remote_actions
                   = repo[d].files[k].remote_actions

\* proceed_pull has returned after the server streamed a commit with an
\* action object
C8_PulledACommit ==
  \E c \in Clients :
    pull[c].st = "returned" /\ Len(LogActions(PulledLog(c))) >= 1

\* the commits of log that follow its first entry with id after; the whole
\* log for an empty after_commit_id
Following(log, after) ==
  IF after = NoId THEN log
  ELSE IF \E k \in 1..Len(log) : log[k].id = after
    THEN SubSeq(log,
                1 + CHOOSE k \in 1..Len(log) :
                      /\ log[k].id = after
                      /\ \A j \in 1..(k - 1) : log[j].id # after,
                Len(log))
  ELSE << >>

\* what the Pull stream of p delivers: the commits sent and those to send
Emits(p) ==
  pull[p].got \o [i \in 1..Len(pull[p].res) |-> CommitToJson(pull[p].res[i])]

\* C9: the Pull handler emits the commits of the remote log that follow the
\* first entry with the id asked for, in order, and the whole remote log
\* when no id is given; every commit it has emitted is in the remote log.
\* A handler that panics emits nothing, which is right only if there was
\* nothing to emit.
C9_PullEmitsLogAfter ==
  \A p \in Requesters :
    /\ pull[p].st = "streaming" =>
         /\ Emits(p)
              = [i \in 1..Len(Following(PulledLog(p), pull[p].after)) |->
                   CommitToJson(Following(PulledLog(p), pull[p].after)[i])]
         /\ \A i \in 1..Len(pull[p].got) :
              \E c \in ServerCommits : pull[p].got[i] = CommitToJson(c)
    /\ (pull[p].st = "panicked" /\ (p = Peer \/ mode[p] = "Remote")) =>
         Following(repo[Server].remote_log, pull[p].after) = << >>

\* a Pull request for the commits after the first one has been answered
\* with a commit
C9_PullAfterFirst ==
  /\ pull[Peer].st = "streaming"
  /\ pull[Peer].after # NoId
  /\ Len(pull[Peer].got) >= 1

\* the commit context of client c is closed in this step
Closes(c) == ctx[c] # NoCommit /\ ctx'[c] = NoCommit

\* the local log of c is a commit that creates user uid followed by a commit
\* that patches it (a_create and a_set_age of src/src/bin/demo.rs)
CreatedThenPatched(c, uid) ==
  /\ Len(repo[c].local_log) = 2
  /\ Len(repo[c].local_log[1].serialized_actions) = 1
  /\ repo[c].local_log[1].serialized_actions[1].action.kind = "Create"
  /\ repo[c].local_log[1].serialized_actions[1].action.data.id = uid
  /\ Len(repo[c].local_log[2].serialized_actions) = 1
  /\ repo[c].local_log[2].serialized_actions[1].action.kind = "Patch"
  /\ repo[c].local_log[2].serialized_actions[1].action.data
       = [op |-> "SetAge", val |-> 7]

\* C10: in Local mode, closing a commit context appends one commit, the one
\* of the context, to the local log and none to the remote log; after a
\* commit that creates an object and one that patches it by filter,
\* get_first_by_filter returns the patched object, the local log holds 2
\* commits and the remote log none
C10_LocalCommitsApply ==
  /\ [][\A c \in Clients :
          Closes(c) =>
            /\ Len(repo'[c].local_log) = Len(repo[c].local_log) + 1
            /\ Last(repo'[c].local_log).id = ctx[c].id
            /\ Last(repo'[c].local_log).serialized_actions
                 = ctx[c].serialized_actions
            /\ repo'[c].remote_log = repo[c].remote_log]_vars
  /\ [](\A c \in Clients :
          CreatedThenPatched(c, 1) =>
            /\ get_first_by_filter(repo[c], "demo_a", 1).ok
            /\ get_first_by_filter(repo[c], "demo_a", 1).so.local_object.age = 7
            /\ Len(repo[c].local_log) = 2
            /\ repo[c].remote_log = << >>)

\* a client in Local mode has closed a commit that creates the user and a
\* commit that sets its age
C10_DemoRan ==
  \E c \in Clients : mode[c] = "Local" /\ CreatedThenPatched(c, 1)

\* C11: the local log of every replica is a chain: its first commit has the
\* sentinel as ancestor_id, every later one the id of the local commit before
\* it, and no commit in it carries a remote_signature
C11_LocalLogIsChain ==
  \A r \in Replicas :
    /\ IsLinearChain(repo[r].local_log)
    /\ \A i \in 1..Len(repo[r].local_log) :
         repo[r].local_log[i].remote_signature = NoSig

\* a client holds two local commits, the second one after the first, and the
\* local log of the server holds two commits as well
C11_TwoLocalCommits ==
  /\ \E c \in Clients :
       /\ Len(repo[c].local_log) = 2
       /\ repo[c].local_log[2].ancestor_id = repo[c].local_log[1].id
  /\ Len(repo[Server].local_log) >= 2

\* the StorageObjects a replica has persisted, and all there are
Persisted(r) == {repo[r].files[k] : k \in DOMAIN repo[r].files}
StorageObjects ==
  (UNION {Persisted(r) : r \in Replicas}) \cup (IF so = NoSO THEN {} ELSE {so})

\* the first action of a chain has no parent, every later one has the id of
\* the action before it
ChainLinked(actions) ==
  \A i \in 1..Len(actions) :
    actions[i].parent_action_id = IF i = 1 THEN NoId ELSE actions[i - 1].id

\* C12: in every StorageObject, in each of remote_actions and local_actions
\* the first action has no parent_action_id and every later action has the
\* id of the action before it in the same chain as parent_action_id
C12_ActionChainsAreLinked ==
  \A o \in StorageObjects :
    ChainLinked(o.remote_actions) /\ ChainLinked(o.local_actions)

\* new_from_aob has accepted a Create that names a parent action
C12_CreateWithParentAccepted ==
  /\ soOp.op = "create"
  /\ soOp.ok
  /\ soOp.aob.parent_action_id # NoId
  /\ so # NoSO

\* every action of a chain carries the SHA-1 of the object the chain folds
\* to, from base, up to and including that action
ChainSigned(base, actions) ==
  \A i \in 1..Len(actions) :
    actions[i].object_signature
      = sha1_signature(ObjToJson(Folded(base, SubSeq(actions, 1, i))))

\* C13: in every StorageObject with a local action, the object_signature of
\* the last local action is the SHA-1 of local_object, and the
\* object_signature of every action of either chain is the SHA-1 of the
\* object got by folding that chain up to and including that action (the
\* remote chain from its Create, the local chain from remote_object or from
\* its Create)
C13_ActionsSignTheirObjects ==
  \A o \in StorageObjects :
    Len(o.local_actions) >= 1 =>
      /\ Last(o.local_actions).object_signature
           = sha1_signature(ObjToJson(o.local_object))
      /\ ChainSigned(NoObj, o.remote_actions)
      /\ ChainSigned(o.remote_object, o.local_actions)

\* new_from_aob has accepted a Create whose object_signature is not the SHA-1
\* of its data, and the object has a local action
C13_MissignedCreateAccepted ==
  /\ so # NoSO
  /\ Len(so.local_actions) >= 1
  /\ \E a \in {so.local_actions[1]}
          \cup {so.remote_actions[i] : i \in 1..Len(so.remote_actions)} :
       /\ a.action.kind = "Create"
       /\ a.object_signature # sha1_signature(ObjToJson(a.action.data))

\* the last call was an accepted remote Patch on an object with local actions
RemoteAdvanced ==
  /\ soOp.op = "remote"
  /\ soOp.ok
  /\ Len(soOp.pre.local_actions) >= 1

\* C14: a valid remote Patch on an object with local Patches leaves
\* remote_object the old one patched by it, remote_actions with it appended,
\* local_actions the same actions in the same order with the same ids,
\* local_object the local Patches applied to the new remote_object, and the
\* object_signature of the last local Patch the SHA-1 of that local_object
C14_RemoteAdvanceRebuildsLocal ==
  RemoteAdvanced =>
    /\ so.remote_object
         = apply_patch(soOp.aob.action.data, soOp.pre.remote_object,
                       soOp.aob.dtime, soOp.aob.uid).obj
    /\ so.remote_actions = Append(soOp.pre.remote_actions, soOp.aob)
    /\ Len(so.local_actions) = Len(soOp.pre.local_actions)
    /\ \A i \in 1..Len(so.local_actions) :
         /\ so.local_actions[i].id = soOp.pre.local_actions[i].id
         /\ so.local_actions[i].action = soOp.pre.local_actions[i].action
         /\ so.local_actions[i].parent_action_id
              = soOp.pre.local_actions[i].parent_action_id
    /\ so.local_object = Folded(so.remote_object, so.local_actions)
    /\ Last(so.local_actions).object_signature
         = sha1_signature(ObjToJson(so.local_object))

\* a remote SetAge has been accepted on an object with a local SetName: the
\* rebuilt local_object differs from the old one and from remote_object
C14_RemotePatchUnderLocalPatch ==
  /\ RemoteAdvanced
  /\ soOp.aob.action.data.op = "SetAge"
  /\ Last(soOp.pre.local_actions).action.data.op = "SetName"
  /\ so.local_object # soOp.pre.local_object
  /\ so.local_object # so.remote_object

\* the last call was clear_local_changes
Cleared == soOp.op = "clear"

\* C19: clear_local_changes on an object with a remote_object leaves
\* local_actions empty and local_object equal to remote_object, and id,
\* storage_id, remote_actions and remote_object as they were; on a purely
\* local object it does not succeed and changes nothing
C19_ClearKeepsRemoteSide ==
  Cleared =>
    IF soOp.pre.remote_object # NoObj
      THEN /\ soOp.ok
           /\ so.local_actions = << >>
           /\ so.local_object = so.remote_object
           /\ so.id = soOp.pre.id
           /\ so.storage_id = soOp.pre.storage_id
           /\ so.remote_actions = soOp.pre.remote_actions
           /\ so.remote_object = soOp.pre.remote_object
      ELSE /\ ~soOp.ok
           /\ so = soOp.pre

\* clear_local_changes has dropped a local patch that had changed the object
C19_LocalChangesCleared ==
  /\ Cleared
  /\ soOp.ok
  /\ Len(soOp.pre.local_actions) >= 1
  /\ soOp.pre.local_object # soOp.pre.remote_object
  /\ Len(so.remote_actions) >= 1

\* the commits of the logs of all replicas, and those of the remote log of
\* the server with a field changed after the signing
LoggedCommits ==
  UNION {{repo[r].local_log[i] : i \in 1..Len(repo[r].local_log)}
           \cup {repo[r].remote_log[i] : i \in 1..Len(repo[r].remote_log)} :
         r \in Replicas}
ChangedCommits == {[c EXCEPT !.comment = "changed"] : c \in ServerCommits}

\* C20: Commit::has_valid_remote_signature is true for every commit whose
\* remote_signature is the one add_remote_signature installed, and false for
\* a commit without a signature or with a field changed after the signing
C20_CommitSignatureVerifies ==
  \A c \in LoggedCommits \cup ChangedCommits :
    commit_has_valid_remote_signature(c) = CommitSignatureValid(c)

\* the remote log of the server holds a commit as add_remote_signature has
\* signed it
C20_SignedCommitLogged ==
  \E c \in ServerCommits :
    /\ CommitSignatureValid(c)
    /\ c = lastMerge.commit

\* the action objects of the Push request being merged, as step 2 of
\* merge_pushed_commit signs them and step 3 hands them to the hooks
ActionsToCheck ==
  IF merging = NoMerge \/ ~IsCommitJson(merging.commit) THEN << >>
  ELSE SignActions(CommitFromJson(merging.commit).serialized_actions)

\* a hook call h on replica state w has left the member ids and the
\* persisted StorageObjects as they were
KeepsStorage(w, h) ==
  /\ h.w.member_ids = w.member_ids
  /\ h.w.files = w.files

\* C16: a storage hook called in Check mode only validates: for every
\* ActionObject, Create or Patch, accepted or rejected, the member_ids and
\* the persisted StorageObjects are the same after the call as before
C16_CheckOnlyValidates ==
  \A i \in 1..Len(ActionsToCheck) :
    KeepsStorage(repo[Server],
                 dispatch(repo[Server], 1, ActionsToCheck[i], "Check",
                          clock[Server]))

\* the server is about to check a pushed commit that holds a Create
C16_CreateToCheck ==
  \E i \in 1..Len(ActionsToCheck) : ActionsToCheck[i].action.kind = "Create"

\* a sequence holds no value twice
NoDuplicates(ids) ==
  \A i, j \in 1..Len(ids) : ids[i] = ids[j] => i = j

\* C17: on every replica, the member_ids of every Storage hold every object
\* id at most once, so that get_all returns every object at most once
C17_MemberIdsAreUnique ==
  \A r \in Replicas, sid \in StorageIds :
    /\ NoDuplicates(repo[r].member_ids[sid])
    /\ NoDuplicates([i \in 1..Len(get_all(repo[r], sid)) |->
                       get_all(repo[r], sid)[i].id])

\* the server has accepted a pushed commit that creates an object
C17_CreateMerged ==
  /\ lastMerge.result = "Ok"
  /\ \E i \in 1..Len(lastMerge.commit.serialized_actions) :
       lastMerge.commit.serialized_actions[i].action.kind = "Create"
  /\ repo[Server].member_ids["demo_a"] # << >>

\* the hooks reject one of the actions when the drop applies them in order
RECURSIVE AnyRejected(_, _, _)
RejectedNext(h, rest, now) ==
  h.res = "Err" \/ AnyRejected(h.w, rest, now)
AnyRejected(w, actions, now) ==
  IF Len(actions) = 0 THEN FALSE
  ELSE RejectedNext(dispatch(w, 1, Head(actions), "Apply", now),
                    Tail(actions), now)

\* C15: a commit that holds an ActionObject that fails validation (wrong
\* parent id or object_signature mismatch) is rejected when its commit
\* context is closed: no commit is appended to the local or the remote log
\* and no StorageObject is changed
C15_InvalidCommitIsRejected ==
  [][\A c \in Clients :
       (Closes(c) /\ AnyRejected(repo[c], ctx[c].serialized_actions, clock[c]))
         => /\ repo'[c].local_log = repo[c].local_log
            /\ repo'[c].remote_log = repo[c].remote_log
            /\ repo'[c].files = repo[c].files]_vars

\* a client has closed a commit with two patches of the same object, both
\* built on the object as it was before the commit
C15_TwoPatchesOfOneObject ==
  \E c \in Clients :
    /\ repo[c].local_log # << >>
    /\ LET a == Last(repo[c].local_log).serialized_actions
       IN /\ Len(a) = 2
          /\ a[1].action.kind = "Patch"
          /\ a[2].action.kind = "Patch"
          /\ a[1].object_id = a[2].object_id
          /\ a[1].parent_action_id = a[2].parent_action_id

\* a commit context of replica r is opened, resp. dropped, in this step
Opens(r) ==
  /\ ctx'[r] # NoCommit
  /\ ctx[r] # NoCommit => ctx'[r].id # ctx[r].id
Drops(r) == ctx[r] # NoCommit /\ ctx'[r] = NoCommit

\* a call of commit_ctx on replica r waits for the mutexes: a Push request
\* other than the one being merged has reached the server
Waiting(r) ==
  /\ r = Server
  /\ merging # NoMerge
  /\ \E p \in Requesters : p # merging.from /\ HasRequest(p)

\* C18: at most one commit context of a Repository is open at any time: a
\* context is opened only when none is open, the logs and the storages
\* change only in the step that drops the open context, and a call that
\* waits while a context is open can take the mutexes once it is dropped
C18_OneCommitContextAtATime ==
  [][\A r \in Replicas :
       /\ Opens(r) => ctx[r] = NoCommit
       /\ repo'[r] # repo[r] => Drops(r)
       /\ (Drops(r) /\ Waiting(r)) => ~poisoned'[r]]_vars

\* a Push request that waited for the open context found the mutexes
\* poisoned
C18_WaitingCallPanicked ==
  /\ lastMerge.result = "Poisoned"
  /\ lastMerge.from \in Clients
  /\ poisoned[Server]
  /\ ctx[Server] = NoCommit

\* the id of the last commit of a log, None for an empty log
LastCommitId(log) == IF Len(log) = 0 THEN NoId ELSE Last(log).id

\* C21: on every replica the commit index agrees with the logs:
\* latest_local_commit_id is the id of the last commit of the local log and
\* latest_remote_commit_id the id of the last commit of the remote log (None
\* for an empty log), and reading the last remote id returns the remote one
C21_IndexAgreesWithLogs ==
  \A r \in Replicas :
    /\ repo[r].index.latest_local_commit_id = LastCommitId(repo[r].local_log)
    /\ repo[r].index.latest_remote_commit_id
         = LastCommitId(repo[r].remote_log)
    /\ latest_remote_commit_id(repo[r].index)
         = LastCommitId(repo[r].remote_log)

\* the server has appended a commit to its remote log and none to its local
\* log
C21_RemoteAheadOfLocal ==
  /\ Len(repo[Server].remote_log) >= 1
  /\ repo[Server].local_log = << >>
  /\ repo[Server].index.latest_remote_commit_id
       = Last(repo[Server].remote_log).id

\* the Push call of client c returns in this step (it has not panicked)
Answered(c) == push[c].st = "wait" /\ push'[c].st = "run"

\* C22: every commit of a Push stream gets one reply, in the order of the
\* requests: the signed version of the commit when it was merged, an error
\* when it was rejected
C22_OneReplyPerPushedCommit ==
  [][\A c \in Clients :
       Answered(c) =>
         /\ Len(push'[c].commits) = Len(push[c].commits) + 1
         /\ lastMerge'.result = "Ok" =>
              /\ Last(push'[c].commits) = CommitToJson(lastMerge'.commit)
              /\ lastMerge'.commit.id = CommitFromJson(Head(push[c].queue)).id
              /\ CommitSignatureValid(lastMerge'.commit)]_vars

\* the server has rejected the commit a client pushed, and the call of the
\* client has returned
C22_RejectedPushAnswered ==
  /\ lastMerge.result = "Err"
  /\ lastMerge.from \in Clients
  /\ push[lastMerge.from].st = "run"

\* the last Push request merged carried a commit with a remote_signature, or
\* one with an ActionObject that has a remote_signature
SignedCommitPushed ==
  /\ MergeRan
  /\ IsCommitJson(lastMerge.req)
  /\ Pushed.remote_signature # NoSig
SignedActionPushed ==
  /\ MergeRan
  /\ IsCommitJson(lastMerge.req)
  /\ \E i \in 1..Len(Pushed.serialized_actions) :
       /\ IsAobJson(Pushed.serialized_actions[i])
       /\ Pushed.serialized_actions[i].remote_signature # NoSig

\* C23: merge_pushed_commit rejects with an error every pushed commit that
\* carries a remote_signature and every pushed commit that holds an
\* ActionObject with a remote_signature: it returns no commit, and the
\* remote log, its index entry and the storages are as before the call
C23_SignedPushIsRejected ==
  (SignedCommitPushed \/ SignedActionPushed) =>
    /\ lastMerge.result = "Err"
    /\ lastMerge.commit = NoCommit
    /\ repo[Server].remote_log = lastMerge.pre.remote_log
    /\ repo[Server].index.latest_remote_commit_id
         = lastMerge.pre.index.latest_remote_commit_id
    /\ repo[Server].member_ids = lastMerge.pre.member_ids
    /\ repo[Server].files = lastMerge.pre.files

\* the peer has pushed a commit without remote_signature, with the ancestor
\* the server expects, whose ActionObjects are signed
C23_UnsignedCommitOfSignedActions ==
  /\ SignedActionPushed
  /\ ~SignedCommitPushed
  /\ Pushed.ancestor_id = LastCommitId(lastMerge.pre.remote_log)
  /\ lastMerge.pre.local_log = << >>

\* C24: when merge_pushed_commit returns Ok(c), c is the commit that has
\* become the last entry of the remote log; it has the id, uid, comment and
\* ancestor_id of the pushed commit and as many actions, in the same order
\* with the same action ids, and the last remote id of the index is c.id
C24_MergeReturnsTheLoggedCommit ==
  lastMerge.result = "Ok" =>
    /\ Len(repo[Server].remote_log) = Len(lastMerge.pre.remote_log) + 1
    /\ Last(repo[Server].remote_log) = lastMerge.commit
    /\ lastMerge.commit.id = Pushed.id
    /\ lastMerge.commit.uid = Pushed.uid
    /\ lastMerge.commit.comment = Pushed.comment
    /\ lastMerge.commit.ancestor_id = Pushed.ancestor_id
    /\ Len(lastMerge.commit.serialized_actions)
         = Len(Pushed.serialized_actions)
    /\ \A i \in 1..Len(Pushed.serialized_actions) :
         lastMerge.commit.serialized_actions[i].id
           = Pushed.serialized_actions[i].id
    /\ repo[Server].index.latest_remote_commit_id = lastMerge.commit.id

\* the server has merged a second commit, one that holds two actions
C24_TwoActionsMerged ==
  /\ lastMerge.result = "Ok"
  /\ Len(lastMerge.commit.serialized_actions) = 2
  /\ Len(repo[Server].remote_log) = 2

\* the last call was add_local_action_object
LocalAdded == soOp.op = "local"

\* what add_local_action_object asks of an action object a on object o
LocalAcceptable(o, a) ==
  /\ a.remote_signature = NoSig
  /\ a.action.kind = "Patch"
  /\ a.parent_action_id = LastId(o.local_actions)
  /\ apply_patch(a.action.data, o.local_object, a.dtime, a.uid).ok
  /\ a.object_signature
       = sha1_signature(ObjToJson(
           apply_patch(a.action.data, o.local_object, a.dtime, a.uid).obj))

\* C25: add_local_action_object accepts an ActionObject only if it is
\* unsigned, a Patch, its parent_action_id the id of the last local action
\* (None for no local action), the patch applies to local_object and its
\* object_signature is the SHA-1 of the patched object; on acceptance the
\* action is appended to local_actions and local_object is the patched
\* object, remote_actions and remote_object unchanged; on rejection the
\* StorageObject is unchanged
C25_LocalPatchIsValidated ==
  LocalAdded =>
    /\ soOp.ok => LocalAcceptable(soOp.pre, soOp.aob)
    /\ soOp.ok =>
         /\ so.local_actions = Append(soOp.pre.local_actions, soOp.aob)
         /\ so.local_object
              = apply_patch(soOp.aob.action.data, soOp.pre.local_object,
                            soOp.aob.dtime, soOp.aob.uid).obj
         /\ so.remote_actions = soOp.pre.remote_actions
         /\ so.remote_object = soOp.pre.remote_object
    /\ ~soOp.ok => so = soOp.pre

\* a second local patch has been accepted on an object with a remote side
C25_SecondLocalPatchAccepted ==
  /\ LocalAdded
  /\ soOp.ok
  /\ Len(so.local_actions) = 2
  /\ so.remote_object # NoObj
  /\ so.local_object # soOp.pre.local_object

\* the last call was add_remote_action_object
RemoteAdded == soOp.op = "remote"

\* C26: add_remote_action_object rejects, leaving the StorageObject
\* unchanged, every ActionObject whose remote_signature is present but is
\* not the SHA-1 of the action with the signature cleared, and no action
\* with an invalid remote_signature is in the remote_actions of any
\* StorageObject
C26_RemoteSignatureIsVerified ==
  /\ (RemoteAdded /\ soOp.aob.remote_signature # NoSig
        /\ ~aob_has_valid_remote_signature(soOp.aob))
       => (~soOp.ok /\ so = soOp.pre)
  /\ \A o \in StorageObjects :
       \A i \in 1..Len(o.remote_actions) :
         aob_has_valid_remote_signature(o.remote_actions[i])

\* a Patch with a forged remote_signature is the last remote action of the
\* object
C26_ForgedPatchAccepted ==
  /\ RemoteAdded
  /\ soOp.ok
  /\ soOp.aob.remote_signature = sha1_signature(Garbage)
  /\ Last(so.remote_actions) = soOp.aob

\* the last call was new_from_aob
Constructed == soOp.op = "create"

\* C27: new_from_aob fails for every ActionObject that is not a Create; for
\* an unsigned Create it yields remote_actions empty, local_actions = [aob],
\* no remote_object and local_object = payload; for a signed Create
\* remote_actions = [aob], local_actions empty and remote_object =
\* local_object = payload; id and storage_id are those the action names
C27_NewFromAob ==
  Constructed =>
    IF soOp.aob.action.kind # "Create"
      THEN ~soOp.ok /\ so = NoSO
      ELSE /\ soOp.ok
           /\ so.id = soOp.aob.object_id
           /\ so.storage_id = soOp.aob.storage_id
           /\ so.local_object = soOp.aob.action.data
           /\ IF soOp.aob.remote_signature = NoSig
                THEN /\ so.remote_actions = << >>
                     /\ so.local_actions = <<soOp.aob>>
                     /\ so.remote_object = NoObj
                ELSE /\ so.remote_actions = <<soOp.aob>>
                     /\ so.local_actions = << >>
                     /\ so.remote_object = soOp.aob.action.data

\* new_from_aob has made an object from a signed Create
C27_RemoteObjectMade ==
  /\ Constructed
  /\ soOp.ok
  /\ soOp.aob.remote_signature # NoSig
  /\ so.remote_object # NoObj

\* the actions applied one after the other, each by the hook of the storage
\* it names and by no other
RECURSIVE ApplyMatching(_, _, _)
ApplyMatching(w, actions, now) ==
  IF Len(actions) = 0 THEN w
  ELSE ApplyMatching(
         IF \E i \in 1..Len(w.hooks) : w.hooks[i] = Head(actions).storage_id
           THEN hook(w, Head(actions).storage_id, Head(actions), "Apply",
                     now).w
           ELSE w,
         Tail(actions), now)

\* the objects replica state w has persisted for storage sid
FilesOf(w, sid) == {k \in DOMAIN w.files : k[1] = sid}

\* C28: when a commit context closes, every ActionObject of the commit is
\* applied by one Storage, the one whose id is the storage_id of the action,
\* and every Storage that no action of the commit names keeps its member_ids
\* and its objects
C28_ActionsGoToTheirStorage ==
  [][\A c \in Clients :
       Closes(c) =>
         /\ repo'[c] = ApplyMatching(add_local_commit(repo[c], ctx[c]),
                                     ctx[c].serialized_actions, clock[c])
         /\ \A sid \in StorageIds :
              (\A i \in 1..Len(ctx[c].serialized_actions) :
                 ctx[c].serialized_actions[i].storage_id # sid)
                => /\ repo'[c].member_ids[sid] = repo[c].member_ids[sid]
                   /\ FilesOf(repo'[c], sid) = FilesOf(repo[c], sid)
                   /\ \A k \in FilesOf(repo[c], sid) :
                        repo'[c].files[k] = repo[c].files[k]]_vars

\* a commit with an action for the second storage only has been applied:
\* the second storage holds an object, the first none
C28_SecondStorageApplied ==
  \E c \in Clients :
    /\ ctx[c] = NoCommit
    /\ Len(repo[c].local_log) >= 1
    /\ Len(repo[c].member_ids[Hooks[2]]) = 1
    /\ repo[c].member_ids[Hooks[1]] = << >>
    /\ FilesOf(repo[c], Hooks[2]) # {}

\* C29: the hook list of a Repository never holds two hooks for the same
\* storage_id: a register call for a storage_id that has a hook is refused
C29_OneHookPerStorage ==
  \A r \in Replicas : NoDuplicates(repo[r].hooks)

\* a third hook has been registered with a repository of two storages
C29_ThirdHookRegistered ==
  \E c \in Clients : Len(repo[c].hooks) > Len(Hooks)

\* an ActionObject is deposited in the open commit context of c in this step
Deposits(c) ==
  /\ ctx[c] # NoCommit
  /\ ctx'[c] # NoCommit
  /\ ctx'[c] # ctx[c]

\* C30: the ActionObjects of a commit are kept in the order in which they
\* were deposited, the logged commit has them in that order, and they are
\* applied to the storages in that order
C30_ActionsKeepTheirOrder ==
  [][\A c \in Clients :
       /\ Deposits(c) =>
            /\ Len(ctx'[c].serialized_actions) > Len(ctx[c].serialized_actions)
            /\ SubSeq(ctx'[c].serialized_actions, 1,
                      Len(ctx[c].serialized_actions))
                 = ctx[c].serialized_actions
       /\ Closes(c) =>
            /\ Last(repo'[c].local_log).serialized_actions
                 = ctx[c].serialized_actions
            /\ repo'[c].member_ids
                 = ApplyMatching(add_local_commit(repo[c], ctx[c]),
                                 ctx[c].serialized_actions, clock[c]).member_ids
            /\ repo'[c].files
                 = ApplyMatching(add_local_commit(repo[c], ctx[c]),
                                 ctx[c].serialized_actions, clock[c]).files]_vars

\* a commit with two patches of one object has been applied: the object
\* holds the patch deposited first and not the one deposited second
C30_FirstOfTwoPatchesApplied ==
  \E c \in Clients :
    /\ ctx[c] = NoCommit
    /\ repo[c].local_log # << >>
    /\ LET a == Last(repo[c].local_log).serialized_actions
       IN /\ Len(a) = 2
          /\ a[1].action.kind = "Patch"
          /\ a[2].action.kind = "Patch"
          /\ a[1].object_id = a[2].object_id
          /\ <<a[1].storage_id, a[1].object_id>> \in DOMAIN repo[c].files
          /\ Last(repo[c].files[<<a[1].storage_id, a[1].object_id>>]
                    .local_actions).id = a[1].id

----------------------------------------------------------------------------
\* one client, the server, the network peer pushing crafted commits, and
\* the client pulling
NextPeerPull ==
  \/ ClientStep("A")
  \/ ServerStep
  \/ \E json \in CraftedCommits : RawPush(json)
  \/ ProceedPull("A")
  \/ PullEmit("A")
  \/ PullEnd("A")

SpecPeerPull == Init /\ [][NextPeerPull]_vars

\* the id a received commit has to name as ancestor when the replica holds
\* the remote log `held`
LastRemoteOrSentinel(held) ==
  IF Len(held) = 0 THEN SentinelId ELSE Last(held).id

\* a commit of the stream names another ancestor than the remote commit
\* before it: the last one held for the first commit of the stream, the
\* commit received before it for the others
Diverges(held, stream) ==
  \E i \in 1..Len(stream) :
    stream[i].ancestor_id
      # IF i = 1 THEN LastRemoteOrSentinel(held) ELSE stream[i - 1].id

\* C31: a pull that receives a commit whose ancestor_id is not the id of
\* the last remote commit the client holds is aborted with RemoteDivergence:
\* proceed_pull does not return Ok(()) on such a stream, and the client's
\* remote log does not hold that commit
C31_DivergentPullAborts ==
  \A c \in Clients :
    (pull[c].st = "returned" /\ pull[c].snap >= 1) =>
      ~Diverges(repo[c].remote_log, PulledLog(c))

\* proceed_pull has returned Ok(()) on a stream whose first commit names an
\* ancestor, to a client that holds no remote commit
C31_DivergentPullReturned ==
  /\ pull["A"].st = "returned"
  /\ pull["A"].snap >= 1
  /\ repo["A"].remote_log = << >>
  /\ PulledLog("A")[1].ancestor_id # SentinelId

\* the action objects of a commit as a client's hook decodes them
TypedActions(c) ==
  {TypedFromJson(c.serialized_actions[j]) :
     j \in {i \in 1..Len(c.serialized_actions) :
              TypedDecodable(c.serialized_actions[i])}}

\* C32: the remote_signature the server puts on an action object, computed
\* over the universal envelope, is the one a client computes over the typed
\* ActionObject without its signature: has_valid_remote_signature is true
\* of every action of every commit merge_pushed_commit has signed
C32_ServerSignatureVerifiesTyped ==
  \A c \in ServerCommits :
    \A aob \in TypedActions(c) : aob_has_valid_remote_signature(aob)

\* merge_pushed_commit has signed and returned a commit that creates an
\* object
C32_SignedCreateReturned ==
  /\ lastMerge.result = "Ok"
  /\ lastMerge.commit \in ServerCommits
  /\ \E aob \in TypedActions(lastMerge.commit) :
       /\ is_kind_create(aob)
       /\ is_remote(aob)

----------------------------------------------------------------------------
\* a repository in Local mode that an earlier run of the application has
\* left with one commit of two users (a_create of src/src/bin/demo.rs takes
\* any id), and an application that patches them by filter
FilterIds == {1, 2}
SeedCommit(u1, u2) ==
  commit_add_action_object(
    commit_add_action_object(
      NewCommit(NewId("A", 0), "A", "Demo commit", -6),
      AobToJson(CreateAob("A", -5, u1))),
    AobToJson(CreateAob("A", -3, u2)))
Seeded(u1, u2) == drop(EmptyRepo, SeedCommit(u1, u2), -1).st

InitFilter ==
  /\ clock = [r \in Replicas |-> 0]
  /\ mode = [r \in Replicas |-> IF r = Server THEN "Server" ELSE "Local"]
  /\ \E u1, u2 \in FilterIds :
       repo = [r \in Replicas |-> IF r = "A" THEN Seeded(u1, u2) ELSE EmptyRepo]
  /\ ctx = [r \in Replicas |-> NoCommit]
  /\ poisoned = [r \in Replicas |-> FALSE]
  /\ push = [c \in Clients |-> IdlePush]
  /\ raw = NoReq
  /\ raws = 0
  /\ merging = NoMerge
  /\ lastMerge = [from |-> "", req |-> NoReq, result |-> "None",
                  commit |-> NoCommit, pre |-> EmptyRepo]
  /\ pull = [p \in Requesters |-> IdlePull]
  /\ pulls = 0
  /\ so = NoSO
  /\ soOp = NoCall
  /\ pushStream = NoStream
  /\ lock = [r \in Replicas |-> Unlocked]

NextFilter ==
  \/ CommitCtx("A")
  \/ \E uid \in FilterIds : CreateObject("A", "demo_a", uid)
  \/ \E uid \in FilterIds, patch \in ObjectPatches :
       PatchByFilter("A", "demo_a", uid, patch)
  \/ DropCommitCtx("A")

SpecFilter == InitFilter /\ [][NextFilter]_vars

\* the action objects this step has added to the pending commit of c
Deposited(c) ==
  SubSeq(ctx'[c].serialized_actions,
         Len(ctx[c].serialized_actions) + 1,
         Len(ctx'[c].serialized_actions))

\* patch_by_filter deposits in the open commit context of c (create_object
\* deposits a Create)
PatchesByFilter(c) ==
  /\ ctx[c] # NoCommit
  /\ ctx'[c] # NoCommit
  /\ ctx'[c] # ctx[c]
  /\ \E k \in 1..Len(Deposited(c)) : Deposited(c)[k].action.kind = "Patch"

\* the objects of storage sid whose local_object has the id uid, in
\* member_ids order
Matching(w, sid, uid) ==
  SelectSeq(w.member_ids[sid],
            LAMBDA oid : w.files[<<sid, oid>>].local_object.id = uid)

\* aobstr is the unsigned Patch of `patch` that StorageObject::patch builds
\* on object o in commit context commit
IsPatchOf(aobstr, o, patch, commit) ==
  /\ TypedDecodable(aobstr)
  /\ is_kind_patch(TypedFromJson(aobstr))
  /\ TypedFromJson(aobstr).action.data = patch
  /\ TypedFromJson(aobstr).storage_id = o.storage_id
  /\ TypedFromJson(aobstr).object_id = o.id
  /\ TypedFromJson(aobstr).commit_id = commit.id
  /\ TypedFromJson(aobstr).remote_signature = NoSig
  /\ TypedFromJson(aobstr).parent_action_id = LastId(o.local_actions)
  /\ TypedFromJson(aobstr).object_signature
       = sha1_signature(ObjToJson(
           apply_patch(patch, o.local_object, 0, commit.uid).obj))

\* C33: a patch_by_filter that succeeds deposits exactly one new unsigned
\* Patch for each object of the storage that satisfies the filter, in
\* member_ids order, each naming the object's last local action as parent
\* and carrying the SHA-1 of the patched local_object; it changes no log
\* and no StorageObject, and leaves what the commit held before in place
C33_PatchByFilterDeposits ==
  [][\A c \in Clients :
       PatchesByFilter(c) =>
         /\ repo' = repo
         /\ ctx'[c] = [ctx[c] EXCEPT !.serialized_actions = @ \o Deposited(c)]
         /\ \E uid \in FilterIds, patch \in ObjectPatches :
              /\ Len(Deposited(c)) = Len(Matching(repo[c], "demo_a", uid))
              /\ \A k \in 1..Len(Deposited(c)) :
                   IsPatchOf(Deposited(c)[k],
                             repo[c].files[<<"demo_a",
                                Matching(repo[c], "demo_a", uid)[k]>>],
                             patch, ctx[c])
              /\ \A k, l \in 1..Len(Deposited(c)) :
                   k # l => Deposited(c)[k].id # Deposited(c)[l].id
              /\ \A k \in 1..Len(Deposited(c)) :
                   \A j \in 1..Len(ctx[c].serialized_actions) :
                     Deposited(c)[k].id # ctx[c].serialized_actions[j].id]_vars

\* the pending commit holds the patches of two objects that one
\* patch_by_filter has deposited, the first member first
C33_TwoObjectsPatched ==
  /\ ctx["A"] # NoCommit
  /\ Len(repo["A"].member_ids["demo_a"]) = 2
  /\ Len(ctx["A"].serialized_actions) = 2
  /\ \A k \in 1..2 :
       /\ ctx["A"].serialized_actions[k].action.kind = "Patch"
       /\ ctx["A"].serialized_actions[k].object_id
            = repo["A"].member_ids["demo_a"][k]

\* json is an unsigned commit of unsigned action objects that names the last
\* remote commit of replica w as ancestor (the sentinel on an empty remote
\* log) and whose actions the hooks of w accept in Check mode
ValidPushOn(w, json) ==
  /\ IsCommitJson(json)
  /\ CommitFromJson(json).remote_signature = NoSig
  /\ CommitFromJson(json).ancestor_id = LastRemoteOrSentinel(w.remote_log)
  /\ \A i \in 1..Len(CommitFromJson(json).serialized_actions) :
       /\ IsAobJson(CommitFromJson(json).serialized_actions[i])
       /\ is_local(UniversalFromJson(CommitFromJson(json).serialized_actions[i]))
  /\ CheckAll(w, SignActions(CommitFromJson(json).serialized_actions), 0).ok

\* merge_pushed_commit returns in this step
MergeReturns == merging # NoMerge /\ merging' = NoMerge

\* C34: a rejected push leaves the server able to accept: the call of
\* merge_pushed_commit that follows one which returned an error, given an
\* unsigned valid commit that names the last remote commit as ancestor,
\* returns Ok and appends the commit to the remote log
C34_AcceptsAfterRejection ==
  [][(/\ MergeReturns
      /\ lastMerge.result = "Err"
      /\ ValidPushOn(repo[Server], merging.commit)) =>
       /\ lastMerge'.result = "Ok"
       /\ repo'[Server].remote_log
            = Append(repo[Server].remote_log, lastMerge'.commit)]_vars

\* merge_pushed_commit has rejected a valid commit with the right ancestor,
\* on a server whose local log holds what a rejected push has left
C34_ValidPushRejected ==
  /\ lastMerge.result = "Err"
  /\ Len(lastMerge.pre.local_log) > 0
  /\ ValidPushOn(lastMerge.pre, lastMerge.req)

\* the storages registered with replica r
Registered(r) == {repo[r].hooks[i] : i \in 1..Len(repo[r].hooks)}

\* the action objects of a log that a registered storage of r decodes
LoggedActions(r, log) ==
  {TypedFromJson(a) :
     a \in {LogActions(log)[k] : k \in 1..Len(LogActions(log))}
           \cap {x \in {LogActions(log)[k] : k \in 1..Len(LogActions(log))} :
                   TypedDecodable(x) /\ x.storage_id \in Registered(r)}}

\* action object a is in the chain `side` of its target object on r
HeldBy(r, a, side) ==
  /\ <<a.storage_id, a.object_id>> \in DOMAIN repo[r].files
  /\ \E i \in 1..Len(repo[r].files[<<a.storage_id, a.object_id>>][side]) :
       repo[r].files[<<a.storage_id, a.object_id>>][side][i].id = a.id

\* C35: logs and storages agree on every replica: every action object of a
\* commit of the local log is in local_actions of its target StorageObject,
\* every action object of a commit of the remote log in remote_actions (so
\* an action that passed the hooks in Check mode is also applied when the
\* merge commit closes)
C35_LogsAndStoragesAgree ==
  \A r \in Replicas :
    /\ \A a \in LoggedActions(r, repo[r].local_log) :
         HeldBy(r, a, "local_actions")
    /\ \A a \in LoggedActions(r, repo[r].remote_log) :
         HeldBy(r, a, "remote_actions")

\* the server has merged a commit with two patches of one object: both
\* passed the hooks in Check mode and are in the remote log
C35_TwoPatchesMerged ==
  /\ lastMerge.result = "Ok"
  /\ lastMerge.commit \in ServerCommits
  /\ Len(lastMerge.commit.serialized_actions) = 2
  /\ \A j \in 1..2 : lastMerge.commit.serialized_actions[j].action.kind = "Patch"
  /\ lastMerge.commit.serialized_actions[1].object_id
       = lastMerge.commit.serialized_actions[2].object_id

----------------------------------------------------------------------------
\* the network peer pushes commits whose action objects no registered
\* storage takes: they name a storage that is not registered, or carry an
\* action that is no Create and no Patch (the universal envelope decodes
\* them, ActionObject<User, UserAction> does not)
Unregistered == "demo_c"
Redirected(a) == [a EXCEPT !.storage_id = Unregistered]
Unknown(a) == [a EXCEPT !.action.kind = "Delete", !.action.order = << >>]

ForeignCommits ==
  {CommitToJson([c EXCEPT
     !.ancestor_id = ServerLast,
     !.serialized_actions = [i \in 1..Len(@) |-> Redirected(@[i])]]) :
     c \in {d \in ClientCommits : Len(d.serialized_actions) > 0}}
  \cup
  {CommitToJson([c EXCEPT
     !.ancestor_id = ServerLast,
     !.serialized_actions = [i \in 1..Len(@) |-> Unknown(@[i])]]) :
     c \in {d \in ClientCommits : Len(d.serialized_actions) > 0}}

RawPushForeign(json) ==
  /\ raw = NoReq
  /\ raws < MaxRaw
  /\ json \in ForeignCommits
  /\ raw' = json
  /\ raws' = raws + 1
  /\ UNCHANGED <<lock, pushStream, so, soOp, clock, mode, repo, ctx, poisoned, push, merging,
                 lastMerge, pull, pulls>>

NextForeign ==
  \/ ClientStep("A")
  \/ ServerStep
  \/ \E json \in ForeignCommits : RawPushForeign(json)

SpecForeign == Init /\ [][NextForeign]_vars

\* C36: every action object of a commit of the server's remote log was
\* validated by the hook of a registered storage: it names a registered
\* storage and decodes as an action object of that storage, so a pushed
\* commit with an action that no hook takes is not appended
C36_MergedActionsWereChecked ==
  \A c \in ServerCommits :
    \A j \in 1..Len(c.serialized_actions) :
      /\ TypedDecodable(c.serialized_actions[j])
      /\ c.serialized_actions[j].storage_id \in Registered(Server)

\* merge_pushed_commit has worked on a commit with an action object that no
\* registered storage takes
C36_ForeignActionPushed ==
  /\ MergeRan
  /\ IsCommitJson(lastMerge.req)
  /\ \E j \in 1..Len(Pushed.serialized_actions) :
       /\ IsAobJson(Pushed.serialized_actions[j])
       /\ \/ ~TypedDecodable(Pushed.serialized_actions[j])
          \/ Pushed.serialized_actions[j].storage_id \notin Registered(Server)

\* the chain of object o is entirely remote
EntirelyRemote(o) ==
  /\ o # NoSO
  /\ Len(o.remote_actions) > 0
  /\ Len(o.local_actions) = 0

\* a Patch made with StorageObject::patch has been pushed and checked
PatchPushed == soOp.op = "push"

\* C37: a Patch that a client makes with patch/patch_by_filter on an object
\* whose chain is entirely remote passes the Check of the server once it is
\* pushed: its parent_action_id is the id of the last action of the remote
\* chain of the object, and add_remote_action_object accepts it
C37_PatchOfRemoteObjectIsAccepted ==
  (PatchPushed /\ EntirelyRemote(soOp.pre)) =>
    /\ soOp.aob.parent_action_id = LastId(soOp.pre.remote_actions)
    /\ soOp.ok

\* the server has checked a Patch made on an object with a remote Create
\* and no local action
C37_RemoteObjectPatched ==
  /\ PatchPushed
  /\ EntirelyRemote(soOp.pre)
  /\ is_kind_create(soOp.pre.remote_actions[1])
  /\ is_kind_patch(soOp.aob)
  /\ soOp.aob.object_id = soOp.pre.id

----------------------------------------------------------------------------
\* StorageObject with an application whose actions can fail: a local Patch
\* that applied when it was made need not apply again once the remote side
\* has moved on
GuardedPatches == {[op |-> "SetAgeIfName", name |-> "Peti", val |-> 7]}

NextRebuild ==
  \/ \E remote \in BOOLEAN, uid \in UserIds : ObjNew(remote, uid, "none")
  \/ \E patch \in ObjectPatches \cup GuardedPatches :
       ObjLocalPatch(patch, "none")
  \/ \E patch \in ObjectPatches, t \in Tampers : ObjRemotePatch(patch, t)
  \/ ObjClear

SpecRebuild == Init /\ [][NextRebuild]_vars

\* C38: whenever add_remote_action_object returns an error, also when the
\* remote Patch is valid and a local action fails to apply again in the
\* rebuild, the StorageObject is as it was before the call: remote_actions,
\* remote_object, local_actions with signatures and dtimes, local_object
C38_FailedRemoteAddChangesNothing ==
  (RemoteAdded /\ ~soOp.ok) => so = soOp.pre

\* add_remote_action_object has returned an error on a Patch that the
\* remote side of the object accepts: the rebuild of the local side failed
C38_RebuildFailed ==
  /\ RemoteAdded
  /\ ~soOp.ok
  /\ Len(soOp.pre.local_actions) > 0
  /\ add_remote_action_object(clear_local_changes(soOp.pre).so, soOp.aob, 0).ok

----------------------------------------------------------------------------
\* Api::push for Repository on a request stream of several commits.  The
\* handler pulls every value the stream! block yields and sends it into an
\* mpsc channel, whose receiver it hands out only when it returns.

\* tokio::sync::mpsc::channel(100)
ChannelCapacity == 100
\* number of commits the peer sends in one request stream
MaxStream == 101

\* the ids of the commits the network peer makes
StreamId(k) == 400 + k
StreamKinds == {"commit", "garbage"}
\* the k-th commit of the stream: an empty commit on the last remote commit,
\* or a string that is no commit
StreamCommit(k, kind) ==
  IF kind = "garbage" THEN <<"garbage">>
  ELSE CommitToJson([NewCommit(StreamId(k), Peer, "", 0)
                       EXCEPT !.ancestor_id = ServerLast])

\* the peer opens a Push request
StreamOpen ==
  /\ pushStream.st = "none"
  /\ merging = NoMerge
  /\ ctx[Server] = NoCommit
  /\ pushStream' = [st |-> "run", done |-> 0, buffered |-> 0]
  /\ UNCHANGED <<lock, clock, mode, repo, ctx, poisoned, push, raw, raws, merging,
                 lastMerge, pull, pulls, so, soOp>>

\* stream.next() delivers a commit: merge_pushed_commit and the drop of its
\* guard; an Ok is yielded, an Err is passed over
StreamMerged(o, json) ==
  /\ repo' = [repo EXCEPT ![Server] = o.st]
  /\ poisoned' = [poisoned EXCEPT ![Server] = o.panic]
  /\ lastMerge' = [from |-> Peer, req |-> json, result |-> o.result,
                   commit |-> o.commit, pre |-> repo[Server]]
  /\ pushStream' = [pushStream EXCEPT
       !.st = IF o.result = "Ok" THEN "send"
              ELSE IF o.result = "Panic" THEN "panicked" ELSE "run",
       !.done = @ + 1]
StreamMerge(kind) ==
  /\ pushStream.st = "run"
  /\ pushStream.done < MaxStream
  /\ ~poisoned[Server]
  /\ StreamMerged(
       MergeOutcome(repo[Server], StreamCommit(pushStream.done + 1, kind),
                    NewCommit(NewId(Server, clock[Server] + 1), Server, "",
                              clock[Server]),
                    clock[Server]),
       StreamCommit(pushStream.done + 1, kind))
  /\ clock' = [clock EXCEPT ![Server] = @ + 1]
  /\ UNCHANGED <<lock, mode, ctx, push, raw, raws, merging, pull, pulls, so, soOp>>

\* tx.send(Ok(res)).await: it completes while the channel has room
StreamSend ==
  /\ pushStream.st = "send"
  /\ pushStream.buffered < ChannelCapacity
  /\ pushStream' = [pushStream EXCEPT !.st = "run", !.buffered = @ + 1]
  /\ UNCHANGED <<lock, clock, mode, repo, ctx, poisoned, push, raw, raws, merging,
                 lastMerge, pull, pulls, so, soOp>>

\* stream.next() delivers None, the request stream has ended:
\* Ok(Response::new(ReceiverStream::new(rx)))
StreamReturn ==
  /\ pushStream.st = "run"
  /\ pushStream' = [pushStream EXCEPT !.st = "returned"]
  /\ UNCHANGED <<lock, clock, mode, repo, ctx, poisoned, push, raw, raws, merging,
                 lastMerge, pull, pulls, so, soOp>>

HandlerStep ==
  \/ \E kind \in StreamKinds : StreamMerge(kind)
  \/ StreamSend
  \/ StreamReturn

NextStream ==
  \/ StreamOpen
  \/ HandlerStep

\* the runtime keeps polling the handler while it can make a step
SpecStream == Init /\ [][NextStream]_vars /\ WF_vars(HandlerStep)

\* C39: the Push handler terminates on every finite request stream: however
\* many commits are merged, it finishes buffering the replies and returns
\* the response stream
C39_PushHandlerTerminates ==
  [](pushStream.st \in {"run", "send"} => <>(pushStream.st = "returned"))

\* the handler has merged more commits than its reply channel holds and is
\* in tx.send with the reply to the last one
C39_ChannelFull ==
  /\ pushStream.st = "send"
  /\ pushStream.buffered = ChannelCapacity
  /\ Len(repo[Server].remote_log) = ChannelCapacity + 1

----------------------------------------------------------------------------
\* Readers and commit contexts.  Repository::ctx() locks the ctx mutex and
\* hands it out as a ContextGuard; CommitContextGuard::new locks the same
\* mutex and keeps it until Drop has appended the commit and run the hooks.
\* Here the close of a commit context is taken one write at a time, so that
\* the states in the middle of a close exist.

\* a reader that takes its ContextGuard without waiting for the mutex
CtxLockedNever(r) == FALSE

\* the ctx mutex of replica r is held by a commit context
CtxLocked(r) == ctx[r] # NoCommit

\* Repository::ctx(): lock().unwrap() waits for the commit context to drop,
\* and panics on a poisoned mutex
ReaderCtx(r) ==
  /\ ~lock[r].reader
  /\ ~CtxLocked(r)
  /\ ~poisoned[r]
  /\ lock' = [lock EXCEPT ![r].reader = TRUE]
  /\ UNCHANGED <<clock, mode, repo, ctx, poisoned, push, raw, raws, merging,
                 lastMerge, pull, pulls, so, soOp, pushStream>>

\* the ContextGuard goes out of scope
ReaderDrop(r) ==
  /\ lock[r].reader
  /\ lock' = [lock EXCEPT ![r].reader = FALSE]
  /\ UNCHANGED <<clock, mode, repo, ctx, poisoned, push, raw, raws, merging,
                 lastMerge, pull, pulls, so, soOp, pushStream>>

\* Drop, first statement: the temp_commit goes to the remote log when it is
\* signed and to the local log otherwise; a failed add_remote_commit panics
DropAppended(r, signed, a) ==
  IF signed /\ ~a.ok
    THEN /\ lock' = [lock EXCEPT ![r].phase = "panicked"]
         /\ repo' = repo
    ELSE /\ lock' = [lock EXCEPT ![r].phase = "apply", ![r].applied = 0,
                                 ![r].pre = IF r = Server THEN @
                                            ELSE repo[r]]
         /\ repo' = [repo EXCEPT ![r] =
                       IF signed THEN a.st
                       ELSE add_local_commit(repo[r], ctx[r])]
DropAppend(r) ==
  /\ ctx[r] # NoCommit
  /\ lock[r].phase = IF r = Server THEN "body" ELSE "none"
  /\ DropAppended(r, ctx[r].remote_signature # NoSig,
                  add_remote_commit(repo[r], ctx[r]))
  /\ UNCHANGED <<clock, mode, ctx, poisoned, push, raw, raws, merging,
                 lastMerge, pull, pulls, so, soOp, pushStream>>

\* Drop, one turn of the apply loop: the hooks see the next action object
DropApply(r) ==
  /\ lock[r].phase = "apply"
  /\ lock[r].applied < Len(ctx[r].serialized_actions)
  /\ repo' = [repo EXCEPT ![r] =
       dispatch(@, 1, ctx[r].serialized_actions[lock[r].applied + 1],
                "Apply", clock[r]).w]
  /\ lock' = [lock EXCEPT ![r].applied = @ + 1]
  /\ UNCHANGED <<clock, mode, ctx, poisoned, push, raw, raws, merging,
                 lastMerge, pull, pulls, so, soOp, pushStream>>

\* Drop has finished on a client: the fields of the guard are dropped and
\* the mutexes are free again
DropRelease(c) ==
  /\ c \in Clients
  /\ lock[c].phase = "apply"
  /\ lock[c].applied = Len(ctx[c].serialized_actions)
  /\ ctx' = [ctx EXCEPT ![c] = NoCommit]
  /\ lock' = [lock EXCEPT ![c] = Unlocked]
  /\ UNCHANGED <<clock, mode, repo, poisoned, push, raw, raws, merging,
                 lastMerge, pull, pulls, so, soOp, pushStream>>

\* merge_pushed_commit from after commit_ctx("") to its return: the hooks
\* have run in Check mode and the guard holds the temp_commit it will drop
MergeBodyDone(m) ==
  /\ repo' = [repo EXCEPT ![Server] = m.st]
  /\ ctx' = [ctx EXCEPT ![Server] = m.temp]
  /\ lock' = [lock EXCEPT ![Server].phase = "body",
                          ![Server].result = m.result,
                          ![Server].commit = m.commit,
                          ![Server].pre = repo[Server]]
MergeBody ==
  /\ merging # NoMerge
  /\ lock[Server].phase = "none"
  /\ MergeBodyDone(merge_pushed_commit(repo[Server], merging.commit,
                                       ctx[Server], clock[Server]))
  /\ UNCHANGED <<clock, mode, poisoned, push, raw, raws, merging, lastMerge,
                 pull, pulls, so, soOp, pushStream>>

\* the guard of merge_pushed_commit is gone and the Push handler replies
MergeRelease ==
  /\ merging # NoMerge
  /\ \/ lock[Server].phase = "panicked"
     \/ /\ lock[Server].phase = "apply"
        /\ lock[Server].applied = Len(ctx[Server].serialized_actions)
  /\ poisoned' = [poisoned EXCEPT ![Server] = lock[Server].phase = "panicked"]
  /\ lastMerge' = [from |-> merging.from, req |-> merging.commit,
                   result |-> IF lock[Server].phase = "panicked"
                                THEN "Panic" ELSE lock[Server].result,
                   commit |-> lock[Server].commit,
                   pre |-> lock[Server].pre]
  /\ push' = Replied(merging.from,
                     IF lock[Server].phase = "panicked"
                       THEN "Panic" ELSE lock[Server].result,
                     lock[Server].commit)
  /\ ctx' = [ctx EXCEPT ![Server] = NoCommit]
  /\ raw' = IF merging.from = Peer THEN NoReq ELSE raw
  /\ merging' = NoMerge
  /\ lock' = [lock EXCEPT ![Server] = Unlocked]
  /\ UNCHANGED <<clock, mode, repo, raws, pull, pulls, so, soOp, pushStream>>

\* client A and the server, each with a reader; whoever needs the ctx mutex
\* (commit_ctx, and local_commits() in proceed_push) waits for the reader
NextReader ==
  \/ \E r \in {"A", Server} : ReaderCtx(r)
  \/ \E r \in {"A", Server} : ReaderDrop(r)
  \/ ~lock["A"].reader /\ CommitCtx("A")
  \/ /\ lock["A"].phase = "none"
     /\ \E sid \in UsedStorages, uid \in UserIds : CreateObject("A", sid, uid)
  \/ /\ lock["A"].phase = "none"
     /\ \E sid \in UsedStorages, uid \in UserIds, patch \in PatchActions :
          PatchByFilter("A", sid, uid, patch)
  \/ \E r \in {"A", Server} : DropAppend(r)
  \/ \E r \in {"A", Server} : DropApply(r)
  \/ DropRelease("A")
  \/ ~lock["A"].reader /\ ProceedPush("A")
  \/ PushReturn("A")
  \/ ~lock[Server].reader /\ MergeBegin("A")
  \/ MergeBody
  \/ MergeRelease
SpecReader == Init /\ [][NextReader]_vars

\* C40: a reader that holds the ContextGuard of Repository::ctx() never
\* observes a partially applied commit: while the guard is held no commit
\* context is open on that replica, none is in the middle of its Drop, and
\* no step changes the logs, member ids or objects of the replica, so what
\* the reader sees is the replica as a whole close or merge left it.
ReaderSeesWhole(r) ==
  lock[r].reader =>
    /\ ctx[r] = NoCommit
    /\ lock[r].phase = "none"
    /\ r = Server => merging = NoMerge
NothingMovesUnderReader ==
  \A r \in Replicas : lock[r].reader => repo'[r] = repo[r]
C40_ReaderNeverSeesPartialCommit ==
  /\ [](\A r \in Replicas : ReaderSeesWhole(r))
  /\ [][NothingMovesUnderReader]_vars

\* readers hold the guard on the client and on the server after a commit
\* of two actions was closed on the one and merged on the other
C40_ReadersAfterCloseAndMerge ==
  /\ lock["A"].reader
  /\ lock[Server].reader
  /\ \E i \in 1..Len(repo[Server].remote_log) :
       Len(repo[Server].remote_log[i].serialized_actions) >= 2
  /\ Len(repo["A"].local_log) >= 1

====
